---- MODULE Spec2Model ----
(***************************************************************************)
(* Product catalog service: the PostgreSQL store (categories and products, *)
(* the guarded stock adjustment), the REST handlers and the gRPC handlers  *)
(* built on it (create, read, update, delete, the paginated lists, batch   *)
(* UpdateStock, CheckProductsAvailability).                                *)
(*                                                                         *)
(* Every SQL statement is one atomic step of the database; a store method  *)
(* that issues two statements is two steps, and other requests may commit  *)
(* between them.  Each request runs on its own goroutine (a client).       *)
(***************************************************************************)
EXTENDS Integers, Sequences, FiniteSets, TLC

\* ------------------------------------------------------------------ bounds
NumClients == 2
MaxId == 2
MaxQty == 2
MaxDelta == 2
MaxItems == 2
MaxCatId == 2
MaxCalls == 4
MaxInFlight == 2
MaxTokenLen == 2
MaxInt == 32767

Clients == 1..NumClients
ProductIds == 1..MaxId
CategoryIds == 1..MaxCatId
Deltas == (0 - MaxDelta)..MaxDelta

VARIABLES
    products,   \* products.products: id -> row (live = FALSE: no such row)
    nextId,     \* the id sequence of products.products
    us,         \* per client: the frame of PostgresStore.UpdateStock
    seen,       \* per client: what the statements of that frame observed
    ledger,     \* per id: quantity at insert plus the deltas returned as success
    rpc,        \* per client: the frame of GRPCHandler.UpdateStock
    outcomes,   \* per client: what happened to each item of the batch so far
    categories, \* products.categories: id -> row
    nextCatId,  \* the id sequence of products.categories
    ls,         \* per client: the frame of PostgresStore.ListProducts/ListCategories
    av,         \* per client: the frame of GRPCHandler.CheckProductsAvailability
    pg,         \* per client: the frame of a paginated RPC list handler
    req,        \* per client: the last REST request, or RPC detail request
    sd          \* the process: servers, pool, main and waitForShutdown

storeVars == <<products, nextId>>
stockVars == <<us, seen, ledger>>
batchVars == <<rpc, outcomes>>
catVars == <<categories, nextCatId, sd>>
readVars == <<ls, av, pg, req>>
vars == <<products, nextId, us, seen, ledger, rpc, outcomes,
          categories, nextCatId, ls, av, pg, req, sd>>

\* ------------------------------------------------------------- the table
\* The attributes column holds JSON text; "null" is the marker for none.

\* category_id 0 stands for NULL.
NoRow ==
    [live |-> FALSE, id |-> 0, name |-> "", sku |-> "", price |-> 0, stock |-> 0,
     cat |-> 0, active |-> FALSE, attrs |-> "null"]

NewRow(id, name, sku, price, stock, cat, active, attrs) ==
    [live |-> TRUE, id |-> id, name |-> name, sku |-> sku, price |-> price,
     stock |-> stock, cat |-> cat, active |-> active, attrs |-> attrs]

\* SKUs are texts; the products a specification starts with carry the SKU of
\* their position in SkuNames.
SkuNames == <<"s1", "s2", "s3", "s4">>

\* domain.Product.Attributes is a pointer: NoAttrs is the nil pointer.
NoAttrs == "<nil>"

\* What the store writes to the column: the document, or the text null for a
\* nil pointer or an empty document.
AttributesJSONObject(attrs) == IF attrs # NoAttrs /\ attrs # "" THEN attrs ELSE "{}"
AttributesJSON(attrs) == IF attrs # NoAttrs /\ attrs # "" THEN attrs ELSE "null"

\* The scan of a row into a domain.Product: attributes that are NULL, empty
\* or the text null leave the pointer nil.
ScanProduct(row) ==
    [row EXCEPT !.attrs = IF row.attrs = "" \/ row.attrs = "null" THEN NoAttrs
                          ELSE row.attrs]

\* ------------------------------------------------ PostgresStore.UpdateStock
ErrNil == "nil"
ErrProductNotFound == "store: product not found"
ErrInsufficientStock == "store: insufficient stock or update constraint violation"
ErrWrapped == "store: UpdateStock failed to scan row"
ErrCategoryNotFound == "store: category not found"
ErrCategoryNameExists == "store: category name already exists"
ErrProductSKUExists == "store: product SKU already exists"

\* A statement that fails for any other reason comes back wrapped around the
\* driver's error, whose text differs from one cause to the next.
StoreFailures ==
    {"store: statement failed: connection refused",
     "store: statement failed: deadlock detected"}

IdleFrame == [pc |-> "idle", id |-> 0, delta |-> 0, err |-> ErrNil, product |-> NoRow]
NothingSeen ==
    [existed |-> FALSE, qty |-> 0, wrote |-> FALSE, raced |-> FALSE, failed |-> FALSE]

\* WHERE id = $2 AND stock_quantity + $1 >= 0
StockGuardNoCheck(qty, delta) == TRUE
StockGuard(qty, delta) == qty + delta >= 0

\* SET stock_quantity = stock_quantity + $1
NewQuantityAssigned(qty, delta) == delta
NewQuantity(qty, delta) == qty + delta

\* The row the UPDATE matches: the id exists and the guard holds on the
\* row as it is when the statement runs.
Matches(id, delta) ==
    /\ products[id].live
    /\ StockGuard(products[id].stock, delta)

\* The column is a 32-bit integer (domain.Product.StockQuantity is int32);
\* MaxQty stands for its largest value.  The engine rejects a statement
\* whose result leaves the range, and the statement then changes nothing.
InRange(qty) == qty <= MaxQty

\* if !exists { return nil, ErrProductNotFound }; return nil, ErrInsufficientStock
ExistsResultNoCheck(exists) == ErrInsufficientStock
ExistsResult(exists) == IF ~exists THEN ErrProductNotFound ELSE ErrInsufficientStock

\* A caller enters UpdateStock(productID, quantityChange).
UpdateStockCall(c, id, delta) ==
    /\ us[c].pc = "idle"
    /\ rpc[c].pc = "idle"
    /\ us' = [us EXCEPT ![c] = [IdleFrame EXCEPT !.pc = "update", !.id = id, !.delta = delta]]
    /\ seen' = [seen EXCEPT ![c] = NothingSeen]
    /\ UNCHANGED <<catVars, readVars, storeVars, ledger, batchVars>>

\* UPDATE ... RETURNING matched a row: the row is adjusted and returned.
UpdateStmtRow(c) ==
    LET id == us[c].id
        delta == us[c].delta
        q == NewQuantity(products[id].stock, delta)
    IN  /\ us[c].pc = "update"
        /\ Matches(id, delta)
        /\ InRange(q)
        /\ products' = [products EXCEPT ![id].stock = q]
        /\ us' = [us EXCEPT ![c].pc = "ret", ![c].err = ErrNil,
                            ![c].product = ScanProduct(products'[id])]
        /\ seen' = [seen EXCEPT ![c].existed = TRUE, ![c].qty = products[id].stock,
                                ![c].wrote = TRUE]
        /\ UNCHANGED <<catVars, readVars, nextId, ledger, batchVars>>

\* UPDATE ... RETURNING matched nothing: Scan yields sql.ErrNoRows and the
\* method goes on to the existence query.
UpdateStmtNoRows(c) ==
    LET id == us[c].id
    IN  /\ us[c].pc = "update"
        /\ ~Matches(id, us[c].delta)
        /\ us' = [us EXCEPT ![c].pc = "exists"]
        /\ seen' = [seen EXCEPT ![c].existed = products[id].live,
                                ![c].qty = products[id].stock]
        /\ UNCHANGED <<catVars, readVars, storeVars, ledger, batchVars>>

\* The statement fails (out of range, connection, context): any error other
\* than sql.ErrNoRows is wrapped and returned; nothing is written.
UpdateStmtError(c) ==
    /\ us[c].pc = "update"
    /\ us' = [us EXCEPT ![c].pc = "ret", ![c].err = ErrWrapped]
    /\ seen' = [seen EXCEPT ![c].existed = products[us[c].id].live,
                            ![c].qty = products[us[c].id].stock,
                            ![c].failed = TRUE]
    /\ UNCHANGED <<catVars, readVars, storeVars, ledger, batchVars>>

\* SELECT EXISTS(...): the Scan error is discarded, so a failed query
\* leaves exists at its zero value, false.
ExistsStmt(c, queryOk) ==
    LET id == us[c].id
        exists == queryOk /\ products[id].live
    IN  /\ us[c].pc = "exists"
        /\ us' = [us EXCEPT ![c].pc = "ret", ![c].err = ExistsResult(exists)]
        /\ seen' = [seen EXCEPT ![c].raced = (products[id].live # seen[c].existed),
                                ![c].failed = ~queryOk]
        /\ UNCHANGED <<catVars, readVars, storeVars, ledger, batchVars>>

\* The direct caller takes the result; a success is entered in the ledger.
UpdateStockReturn(c) ==
    /\ us[c].pc = "ret"
    /\ rpc[c].pc = "idle"
    /\ ledger' = IF us[c].err = ErrNil
                 THEN [ledger EXCEPT ![us[c].id] = @ + us[c].delta]
                 ELSE ledger
    /\ us' = [us EXCEPT ![c] = IdleFrame]
    /\ seen' = [seen EXCEPT ![c] = NothingSeen]
    /\ UNCHANGED <<catVars, readVars, storeVars, batchVars>>

\* The whole of a successful UpdateStock of a request that is not followed
\* step by step: its one statement adjusts the row, and it returns success.
ConcurrentUpdateStock(id, delta) ==
    LET q == NewQuantity(products[id].stock, delta)
    IN  /\ Matches(id, delta)
        /\ InRange(q)
        /\ products' = [products EXCEPT ![id].stock = q]
        /\ ledger' = [ledger EXCEPT ![id] = @ + delta]
        /\ UNCHANGED <<catVars, readVars, nextId, us, seen, batchVars>>

\* ------------------------------------------- CreateProduct, DeleteProduct
\* INSERT ... RETURNING id: the id comes from the table's sequence.
CreateProduct(name, sku, price, stock, cat, active, attrs) ==
    /\ nextId <= MaxId
    /\ \A id \in ProductIds : products[id].live => products[id].sku # sku
    /\ products' = [products EXCEPT
                      ![nextId] = NewRow(nextId, name, sku, price, stock, cat, active,
                                         attrs)]
    /\ nextId' = nextId + 1
    /\ ledger' = [ledger EXCEPT ![nextId] = stock]
    /\ UNCHANGED <<catVars, readVars, us, seen, batchVars>>

\* DELETE FROM products.products WHERE id = $1 with one row affected.
DeleteProduct(id) ==
    /\ products[id].live
    /\ products' = [products EXCEPT ![id] = NoRow]
    /\ UNCHANGED <<catVars, readVars, nextId, stockVars, batchVars>>

\* ---------------------------------------------------- gRPC status values
\* A status is its code, the message template it was built from, the id
\* that the message carries and the error text formatted into it (%v of err).
StatusOK == [code |-> "OK", msg |-> "", id |-> 0, detail |-> ""]
Status(code, msg, id) == [code |-> code, msg |-> msg, id |-> id, detail |-> ""]
StatusWithCause(code, msg, id, err) == [code |-> code, msg |-> msg, id |-> id, detail |-> err]

\* A mapping that answers Internal for every failure.
MapStoreErrorAllInternal(err, id) ==
    IF err = ErrNil THEN StatusOK
    ELSE StatusWithCause("Internal", "failed to process request", id, err)

MapStoreErrorToGrpcStatus(err, id) ==
    CASE err = ErrNil -> StatusOK
      [] err \in {ErrCategoryNotFound, ErrProductNotFound} -> Status("NotFound", "not found", id)
      [] err = ErrCategoryNameExists -> Status("AlreadyExists", "name already exists", 0)
      [] err = ErrProductSKUExists -> Status("AlreadyExists", "SKU already exists", 0)
      [] err = ErrInsufficientStock -> Status("FailedPrecondition", "insufficient stock", id)
      [] OTHER -> StatusWithCause("Internal", "failed to process request", id, err)

\* json.Unmarshal into map[string]interface{} succeeds on a JSON object only.
UnmarshalsToMap(text) == text \in {"{}", "{\"a\":1}"}

\* convertDomainProductToProto: a product without attributes, or with the
\* text null, converts without a Struct; other attributes must be an object.
NoStruct == "<none>"
ConvertDomainProductToProto(p) ==
    LET pb == [id |-> p.id, name |-> p.name, sku |-> p.sku, price |-> p.price,
               stock |-> p.stock,
               cat |-> p.cat, active |-> p.active, attrs |-> NoStruct]
    IN  IF p.attrs # NoAttrs /\ p.attrs # ""
        THEN IF p.attrs = "null" THEN [ok |-> TRUE, product |-> pb]
             ELSE IF UnmarshalsToMap(p.attrs)
                  THEN [ok |-> TRUE, product |-> [pb EXCEPT !.attrs = p.attrs]]
                  ELSE [ok |-> FALSE, product |-> pb]
        ELSE [ok |-> TRUE, product |-> pb]

\* ------------------------------------------------- GRPCHandler.UpdateStock
IdleRpc ==
    [pc |-> "idle", items |-> <<>>, i |-> 1, updated |-> <<>>,
     firstError |-> StatusOK, respNil |-> TRUE, err |-> StatusOK]

\* if firstError == nil { firstError = e }
Capture(first, e) == IF first = StatusOK THEN e ELSE first

\* continue: the loop goes on with the next item of the n items.
AfterFailureBreak(i, n) == n + 1
AfterFailure(i, n) == i + 1

\* The request arrives; an empty item list is rejected at once.
UpdateStockRpc(c, items) ==
    /\ rpc[c].pc = "idle"
    /\ us[c].pc = "idle"
    /\ rpc' = [rpc EXCEPT ![c] =
                 IF Len(items) = 0
                 THEN [IdleRpc EXCEPT !.pc = "done", !.items = items,
                                      !.err = Status("InvalidArgument", "no items", 0)]
                 ELSE [IdleRpc EXCEPT !.pc = "loop", !.items = items]]
    /\ outcomes' = [outcomes EXCEPT ![c] = <<>>]
    /\ UNCHANGED <<catVars, readVars, storeVars, stockVars>>

\* An item whose product id is not positive: recorded, no store call.
UpdateStockRpcSkip(c) ==
    LET f == rpc[c]
        item == f.items[f.i]
    IN  /\ f.pc = "loop"
        /\ f.i <= Len(f.items)
        /\ item.id <= 0
        /\ rpc' = [rpc EXCEPT
                     ![c].firstError = Capture(f.firstError,
                                               Status("InvalidArgument", "invalid id", item.id)),
                     ![c].i = AfterFailure(f.i, Len(f.items))]
        /\ outcomes' = [outcomes EXCEPT ![c] =
                          Append(@, [item |-> item, called |-> FALSE, wrote |-> FALSE,
                                     err |-> ErrNil, converted |-> FALSE])]
        /\ UNCHANGED <<catVars, readVars, storeVars, stockVars>>

\* s.productStore.UpdateStock(ctx, item.GetProductId(), item.GetQuantityChange())
UpdateStockRpcCallStore(c) ==
    LET f == rpc[c]
        item == f.items[f.i]
    IN  /\ f.pc = "loop"
        /\ f.i <= Len(f.items)
        /\ item.id > 0
        /\ rpc' = [rpc EXCEPT ![c].pc = "call"]
        /\ us' = [us EXCEPT ![c] = [IdleFrame EXCEPT !.pc = "update", !.id = item.id,
                                                     !.delta = item.delta]]
        /\ seen' = [seen EXCEPT ![c] = NothingSeen]
        /\ UNCHANGED <<catVars, readVars, storeVars, ledger, outcomes>>

\* The store call has returned: an error is mapped and captured, a product
\* is converted and appended; a conversion failure is captured as well.
UpdateStockRpcItemResult(c) ==
    LET f == rpc[c]
        item == f.items[f.i]
        n == Len(f.items)
        conv == ConvertDomainProductToProto(us[c].product)
        grpcErr == MapStoreErrorToGrpcStatus(us[c].err, item.id)
    IN  /\ f.pc = "call"
        /\ us[c].pc = "ret"
        /\ rpc' = [rpc EXCEPT ![c] =
                     IF us[c].err # ErrNil
                     THEN [f EXCEPT !.pc = "loop",
                                    !.firstError = Capture(f.firstError, grpcErr),
                                    !.i = AfterFailure(f.i, n)]
                     ELSE IF ~conv.ok
                     THEN [f EXCEPT !.pc = "loop",
                                    !.firstError =
                                        Capture(f.firstError,
                                                Status("Internal", "failed to process data",
                                                       us[c].product.id)),
                                    !.i = AfterFailure(f.i, n)]
                     ELSE [f EXCEPT !.pc = "loop",
                                    !.updated = Append(f.updated, conv.product),
                                    !.i = f.i + 1]]
        /\ outcomes' = [outcomes EXCEPT ![c] =
                          Append(@, [item |-> item, called |-> TRUE,
                                     wrote |-> seen[c].wrote, err |-> us[c].err,
                                     converted |-> (us[c].err = ErrNil /\ conv.ok)])]
        /\ ledger' = IF us[c].err = ErrNil
                     THEN [ledger EXCEPT ![us[c].id] = @ + us[c].delta]
                     ELSE ledger
        /\ us' = [us EXCEPT ![c] = IdleFrame]
        /\ seen' = [seen EXCEPT ![c] = NothingSeen]
        /\ UNCHANGED <<catVars, readVars, storeVars>>

\* After the loop: the response and the error the handler returns.
UpdateStockRpcFinish(c) ==
    LET f == rpc[c]
    IN  /\ f.pc = "loop"
        /\ f.i > Len(f.items)
        /\ rpc' = [rpc EXCEPT ![c] =
                     IF f.firstError # StatusOK /\ Len(f.updated) < Len(f.items)
                     THEN [f EXCEPT !.pc = "done", !.respNil = FALSE, !.err = f.firstError]
                     ELSE IF f.firstError # StatusOK
                     THEN [f EXCEPT !.pc = "done", !.respNil = TRUE, !.err = f.firstError]
                     ELSE [f EXCEPT !.pc = "done", !.respNil = FALSE, !.err = StatusOK]]
        /\ UNCHANGED <<catVars, readVars, storeVars, stockVars, outcomes>>

\* ------------------------------------------------- the categories table
\* Category names are unique; their alphabetical order is their position in
\* CatNames.  parent 0 stands for NULL.
CatNames == <<"a", "b", "c">>

NameRank(name) == CHOOSE i \in 1..Len(CatNames) : CatNames[i] = name

NoCategory == [live |-> FALSE, id |-> 0, name |-> "", parent |-> 0]

NewCategory(id, name, parent) == [live |-> TRUE, id |-> id, name |-> name, parent |-> parent]

\* ------------------------------------------------- store: the two List calls
\* A List call is two statements: the count, then the page.  isActive is the
\* *bool filter ("any" = nil); cat 0 and an empty ids are the unset filters.
ErrListWrapped == "store: List failed"

Range(s) == {s[i] : i \in 1..Len(s)}

Min(a, b) == IF a < b THEN a ELSE b

ListProductsParams(limit, offset, ids, cat, isActive) ==
    [limit |-> limit, offset |-> offset, ids |-> ids, cat |-> cat, isActive |-> isActive]

ListCategoriesParams(limit, offset) == ListProductsParams(limit, offset, <<>>, 0, "any")

\* rowsNil tells the nil slice from the empty one.
IdleList ==
    [pc |-> "idle", table |-> "", params |-> ListCategoriesParams(0, 0),
     total |-> 0, rows |-> <<>>, rowsNil |-> TRUE, err |-> ErrNil]

ListCall(table, params) ==
    [pc |-> "count", table |-> table, params |-> params,
     total |-> 0, rows |-> <<>>, rowsNil |-> TRUE, err |-> ErrNil]

ProductMatchesLive(row, p) == row.live

ProductMatches(row, p) ==
    /\ row.live
    /\ p.cat # 0 => row.cat = p.cat
    /\ p.isActive # "any" => row.active = (p.isActive = "true")
    /\ Len(p.ids) > 0 => row.id \in Range(p.ids)

MatchingProducts(p) == {id \in ProductIds : ProductMatches(products[id], p)}

LiveCategories == {id \in CategoryIds : categories[id].live}

\* ORDER BY created_at ASC: rows in order of insertion, which is id order.
RECURSIVE ByCreation(_)
ByCreation(S) ==
    IF S = {} THEN <<>>
    ELSE LET m == CHOOSE x \in S : \A y \in S : x <= y
         IN  <<m>> \o ByCreation(S \ {m})

\* ORDER BY name ASC.
RECURSIVE ByName(_)
ByName(S) ==
    IF S = {} THEN <<>>
    ELSE LET m == CHOOSE x \in S :
                    \A y \in S : NameRank(categories[x].name) <= NameRank(categories[y].name)
         IN  <<m>> \o ByName(S \ {m})

\* LIMIT $n OFFSET $m over an ordered result.
\* LIMIT without OFFSET.
LimitNoOffset(seq, limit, offset) ==
    [i \in 1..Min(limit, Len(seq)) |-> seq[i]]

LimitOffset(seq, limit, offset) ==
    LET n == IF Len(seq) - offset < 0 THEN 0 ELSE Min(limit, Len(seq) - offset)
    IN  [i \in 1..n |-> seq[offset + i]]

Matching(f) ==
    IF f.table = "products" THEN ByCreation(MatchingProducts(f.params))
    ELSE ByName(LiveCategories)

ScanRow(f, id) == IF f.table = "products" THEN ScanProduct(products[id]) ELSE categories[id]

\* SELECT COUNT(*) ... ; a total of 0 returns without the second statement.
ListCountStmt(c) ==
    /\ ls[c].pc = "count"
    /\ LET total == Len(Matching(ls[c]))
       IN  ls' = [ls EXCEPT ![c].total = total,
                            ![c].rowsNil = total # 0,
                            ![c].pc = IF total = 0 THEN "ret" ELSE "data"]
    /\ UNCHANGED <<catVars, storeVars, stockVars, batchVars, av, pg, req>>

\* SELECT ... ORDER BY ... LIMIT ... OFFSET ...
ListDataStmt(c) ==
    /\ ls[c].pc = "data"
    /\ ls[c].params.offset >= 0          \* a negative OFFSET fails the statement
    /\ LET ids == LimitOffset(Matching(ls[c]), ls[c].params.limit, ls[c].params.offset)
       IN  ls' = [ls EXCEPT ![c].rows = [i \in 1..Len(ids) |-> ScanRow(ls[c], ids[i])],
                            ![c].rowsNil = FALSE,
                            ![c].pc = "ret"]
    /\ UNCHANGED <<catVars, storeVars, stockVars, batchVars, av, pg, req>>

\* Either statement fails (connection lost, context cancelled): nil, 0, err.
ListStmtErrorCause(c, err) ==
    /\ ls[c].pc \in {"count", "data"}
    /\ ls' = [ls EXCEPT ![c].pc = "ret", ![c].total = 0, ![c].rows = <<>>,
                        ![c].rowsNil = TRUE, ![c].err = err]
    /\ UNCHANGED <<catVars, storeVars, stockVars, batchVars, av, pg, req>>

ListStmtError(c) == ListStmtErrorCause(c, ErrListWrapped)

\* ------------------------------------------- gRPC: CheckProductsAvailability
NoReason == "<nil>"

\* An item is [id, qty]: product_id and required_quantity.
InvalidQuantityNegative(qty) == qty < 0

InvalidQuantity(qty) == qty <= 0

\* The validation loop: the first invalid item rejects the request.
FirstInvalid(items, j) ==
    LET bad == {k \in j..Len(items) : items[k].id <= 0 \/ InvalidQuantity(items[k].qty)}
    IN  IF bad = {} THEN StatusOK
        ELSE LET k == CHOOSE x \in bad : \A y \in bad : x <= y
             IN  IF items[k].id <= 0
                 THEN Status("InvalidArgument", "Item contains invalid Product ID",
                             items[k].id)
                 ELSE Status("InvalidArgument", "Item has invalid required quantity",
                             items[k].id)

IdleAvail ==
    [pc |-> "idle", items |-> <<>>, statuses |-> <<>>, respNil |-> FALSE,
     err |-> StatusOK, calls |-> 0, fetched |-> <<>>]

InsufficientForInclusive(stock, required) == stock <= required

InsufficientFor(stock, required) == stock < required

\* domainProductMap[p.ID] = p over the fetched rows: the last row of an id wins.
Fetched(rows, id) == {i \in 1..Len(rows) : rows[i].id = id}

Lookup(rows, id) == rows[CHOOSE i \in Fetched(rows, id) : \A k \in Fetched(rows, id) : k <= i]

StatusEntry(item, rows) ==
    LET entry == [productId |-> item.id, available |-> FALSE, reason |-> NoReason,
                  name |-> "", price |-> 0, quantity |-> 0]
    IN  IF Fetched(rows, item.id) = {}
        THEN [entry EXCEPT !.reason = "Product not found."]
        ELSE LET p == Lookup(rows, item.id)
                 found == [entry EXCEPT !.name = p.name, !.price = p.price,
                                        !.quantity = p.stock]
             IN  IF ~p.active
                 THEN [found EXCEPT !.reason = "Product is not active."]
                 ELSE IF InsufficientFor(p.stock, item.qty)
                 THEN [found EXCEPT !.reason = "Insufficient stock."]
                 ELSE [found EXCEPT !.available = TRUE]

\* Lines 957-985: validation, then one ListProducts call for all the ids.
CheckProductsAvailability(c, items) ==
    /\ av[c].pc = "idle" /\ pg[c].pc = "idle" /\ ls[c].pc = "idle"
    /\ rpc[c].pc = "idle" /\ us[c].pc = "idle"
    /\ LET rejected == IF Len(items) = 0
                       THEN Status("InvalidArgument", "No items provided", 0)
                       ELSE FirstInvalid(items, 1)
           f == [IdleAvail EXCEPT !.items = items]
       IN  IF rejected # StatusOK
           THEN /\ av' = [av EXCEPT ![c] = [f EXCEPT !.pc = "done", !.respNil = TRUE,
                                                    !.err = rejected]]
                /\ UNCHANGED ls
           ELSE /\ av' = [av EXCEPT ![c] = [f EXCEPT !.pc = "list", !.calls = 1]]
                /\ ls' = [ls EXCEPT ![c] =
                             ListCall("products",
                                      ListProductsParams(Len(items), 0,
                                          [j \in 1..Len(items) |-> items[j].id],
                                          0, "true"))]
    /\ UNCHANGED <<catVars, storeVars, stockVars, batchVars, pg, req>>

\* Lines 986-1035: the store's answer becomes one status per item.
CheckProductsAvailabilityResult(c) ==
    /\ av[c].pc = "list" /\ ls[c].pc = "ret"
    /\ LET f == av[c]
       IN  av' = [av EXCEPT ![c] =
                     IF ls[c].err # ErrNil
                     THEN [f EXCEPT !.pc = "done", !.respNil = TRUE,
                                    !.err = Status("Internal",
                                                   "Error retrieving product data", 0)]
                     ELSE [f EXCEPT !.pc = "done", !.fetched = ls[c].rows,
                                    !.statuses = [j \in 1..Len(f.items) |->
                                                    StatusEntry(f.items[j], ls[c].rows)]]]
    /\ ls' = [ls EXCEPT ![c] = IdleList]
    /\ UNCHANGED <<catVars, storeVars, stockVars, batchVars, pg, req>>

\* ------------------------------- gRPC: ListCategoriesInternal, ListProductsInternal
DefaultPageSize == 10
MaxPageSize == 100

PageSize(limit32) ==
    IF limit32 <= 0 THEN DefaultPageSize
    ELSE IF limit32 > MaxPageSize THEN MaxPageSize
    ELSE limit32

\* A page token is a text: a sequence of characters.
DigitChars == <<"0", "1", "2", "3", "4", "5", "6", "7", "8", "9">>

IsDigit(ch) == \E d \in 0..9 : DigitChars[d + 1] = ch

DigitValue(ch) == CHOOSE d \in 0..9 : DigitChars[d + 1] = ch

RECURSIVE DigitsValue(_)
DigitsValue(s) ==
    IF Len(s) = 0 THEN 0
    ELSE DigitsValue(SubSeq(s, 1, Len(s) - 1)) * 10 + DigitValue(s[Len(s)])

\* The machine integer (Go int): MaxInt stands for its largest value, and
\* arithmetic wraps around.
MinInt == 0 - MaxInt - 1

Wrap(n) == ((n - MinInt) % (2 * (MaxInt + 1))) + MinInt

\* strconv.Atoi: an optional sign, then one or more decimal digits; a value
\* outside the machine integer is an error.
Atoi(s) ==
    LET signed == Len(s) > 0 /\ s[1] \in {"+", "-"}
        digits == IF signed THEN Tail(s) ELSE s
        value == IF signed /\ s[1] = "-" THEN 0 - DigitsValue(digits)
                 ELSE DigitsValue(digits)
    IN  IF Len(digits) = 0 \/ \E i \in 1..Len(digits) : ~IsDigit(digits[i])
        THEN [ok |-> FALSE, value |-> 0]
        ELSE IF value > MaxInt \/ value < MinInt
        THEN [ok |-> FALSE, value |-> IF value > MaxInt THEN MaxInt ELSE MinInt]
        ELSE [ok |-> TRUE, value |-> value]

\* strconv.Itoa.
RECURSIVE Itoa(_)
Itoa(n) ==
    IF n < 0 THEN <<"-">> \o Itoa(0 - n)
    ELSE IF n < 10 THEN <<DigitChars[n + 1]>>
    ELSE Itoa(n \div 10) \o <<DigitChars[(n % 10) + 1]>>

OffsetOfUnchecked(token) ==
    IF token # <<>> /\ Atoi(token).ok THEN Atoi(token).value ELSE 0

OffsetOf(token) ==
    IF token # <<>> /\ Atoi(token).ok /\ Atoi(token).value >= 0
    THEN Atoi(token).value
    ELSE 0

NextPageToken(offset, returned, totalCount) ==
    IF offset + returned < totalCount THEN Itoa(offset + returned) ELSE <<>>

ConvertDomainCategoryToProto(cat) == [id |-> cat.id, name |-> cat.name, parent |-> cat.parent]

ActualProtoProductsAll(rows) ==
    [i \in 1..Len(rows) |-> ConvertDomainProductToProto(rows[i]).product]

\* The products of a page that convert, in order; the others are dropped.
ActualProtoProducts(rows) ==
    LET conv == [i \in 1..Len(rows) |-> ConvertDomainProductToProto(rows[i])]
        kept == SelectSeq(conv, LAMBDA r : r.ok)
    IN  [i \in 1..Len(kept) |-> kept[i].product]

IdlePage ==
    [pc |-> "idle", kind |-> "", token |-> <<>>, params |-> ListCategoriesParams(0, 0),
     parent |-> 0, entities |-> <<>>, nextToken |-> <<>>, total |-> 0,
     respNil |-> FALSE, err |-> StatusOK, calls |-> 0, received |-> <<>>]

\* The frame keeps the parent category id of the request (line 719).
PageCallOf(c, kind, token, params, parentCatId) ==
    /\ av[c].pc = "idle" /\ pg[c].pc = "idle" /\ ls[c].pc = "idle"
    /\ rpc[c].pc = "idle" /\ us[c].pc = "idle"
    /\ pg' = [pg EXCEPT ![c] = [IdlePage EXCEPT !.pc = "list", !.kind = kind,
                                                !.token = token, !.params = params,
                                                !.parent = parentCatId, !.calls = 1]]
    /\ ls' = [ls EXCEPT ![c] = ListCall(kind, params)]
    /\ UNCHANGED <<catVars, storeVars, stockVars, batchVars, av, req>>

PageCall(c, kind, token, params) == PageCallOf(c, kind, token, params, 0)

\* Lines 718-752.  The parent category of the request is read and not used.
ListCategoriesInternal(c, pageSize, token, parentCatId) ==
    PageCallOf(c, "categories", token,
               ListCategoriesParams(PageSize(pageSize), OffsetOf(token)), parentCatId)

\* Lines 804-851.  Both branches of include_inactive = TRUE leave IsActive unset.
ListProductsInternal(c, pageSize, token, categoryId, productIds, includeInactive) ==
    PageCall(c, "products", token,
             ListProductsParams(PageSize(pageSize), OffsetOf(token), productIds,
                                IF categoryId > 0 THEN categoryId ELSE 0,
                                IF includeInactive THEN "any" ELSE "true"))

PageResult(c, kind, entities) ==
    /\ pg[c].pc = "list" /\ pg[c].kind = kind /\ ls[c].pc = "ret"
    /\ LET f == pg[c]
       IN  pg' = [pg EXCEPT ![c] =
                     IF ls[c].err # ErrNil
                     THEN [f EXCEPT !.pc = "done", !.respNil = TRUE,
                                    !.err = StatusWithCause("Internal", "Failed to list", 0,
                                                           ls[c].err)]
                     ELSE [f EXCEPT !.pc = "done", !.entities = entities,
                                    !.received = f.received \o
                                        [i \in 1..Len(entities) |-> entities[i].id],
                                    !.total = ls[c].total,
                                    !.nextToken = NextPageToken(f.params.offset,
                                                                Len(entities),
                                                                ls[c].total)]]
    /\ ls' = [ls EXCEPT ![c] = IdleList]
    /\ UNCHANGED <<catVars, storeVars, stockVars, batchVars, av, req>>

\* Lines 753-774.
\* The caller of a list RPC that was answered a next page token repeats the
\* request with that token: the handler reads the offset from the token and
\* the same limit and filters from the request.  The frame counts the calls
\* of the walk and keeps the ids of the entities received so far.
FollowNextPageToken(c) ==
    /\ pg[c].pc = "done" /\ pg[c].err = StatusOK /\ pg[c].nextToken # <<>>
    /\ ls[c].pc = "idle"
    /\ pg[c].calls < MaxCalls
    /\ LET params == [pg[c].params EXCEPT !.offset = OffsetOf(pg[c].nextToken)]
       IN  /\ pg' = [pg EXCEPT ![c] = [pg[c] EXCEPT !.pc = "list",
                                                   !.token = pg[c].nextToken,
                                                   !.params = params,
                                                   !.entities = <<>>,
                                                   !.nextToken = <<>>,
                                                   !.total = 0,
                                                   !.calls = pg[c].calls + 1]]
           /\ ls' = [ls EXCEPT ![c] = ListCall(pg[c].kind, params)]
    /\ UNCHANGED <<catVars, storeVars, stockVars, batchVars, av, req>>

ListCategoriesInternalResult(c) ==
    PageResult(c, "categories",
               [i \in 1..Len(ls[c].rows) |-> ConvertDomainCategoryToProto(ls[c].rows[i])])

\* Lines 852-891.
ListProductsInternalResult(c) ==
    PageResult(c, "products", ActualProtoProducts(ls[c].rows))

\* ------------------------------------------------ REST: the list handlers
\* A REST request frame: what the request asked, what the handler passed to
\* the store (calls counts the store calls) and the response it wrote.
NoBody == "<none>"

IdleReq ==
    [pc |-> "idle", op |-> "", id |-> 0, limitStr |-> <<>>, pageStr |-> <<>>,
     name |-> "", parent |-> 0, sku |-> "", stock |-> 0, attrs |-> NoAttrs,
     limit |-> 0, page |-> 0, calls |-> 0, storeErr |-> ErrNil, storeNil |-> FALSE,
     status |-> 0, msg |-> "", body |-> NoBody, grpc |-> StatusOK]

Respond(f, status, msg, body) ==
    [f EXCEPT !.pc = "done", !.status = status, !.msg = msg, !.body = body]

\* limit, err := strconv.Atoi(limitStr); the default, then the maximum.
RestLimit(limitStr) ==
    LET parsed == Atoi(limitStr)
        limit == IF ~parsed.ok \/ parsed.value <= 0 THEN DefaultPageSize ELSE parsed.value
    IN  IF limit > MaxPageSize THEN MaxPageSize ELSE limit

RestPage(pageStr) ==
    LET parsed == Atoi(pageStr)
    IN  IF ~parsed.ok \/ parsed.value <= 0 THEN 1 ELSE parsed.value

\* offset := (page - 1) * limit, in machine integers.
RestOffset(page, limit) == Wrap((page - 1) * limit)

\* strconv.ParseBool.
ParseBool(text) ==
    IF text \in {"1", "t", "T", "TRUE", "true", "True"} THEN [ok |-> TRUE, value |-> TRUE]
    ELSE IF text \in {"0", "f", "F", "FALSE", "false", "False"}
    THEN [ok |-> TRUE, value |-> FALSE]
    ELSE [ok |-> FALSE, value |-> FALSE]

RestCall(c, op, limitStr, pageStr, params) ==
    /\ req' = [req EXCEPT ![c] = [IdleReq EXCEPT !.pc = "list", !.op = op,
                                                 !.limitStr = limitStr,
                                                 !.pageStr = pageStr,
                                                 !.limit = RestLimit(limitStr),
                                                 !.page = RestPage(pageStr),
                                                 !.calls = 1]]
    /\ ls' = [ls EXCEPT ![c] = ListCall(IF op = "ListCategories" THEN "categories"
                                        ELSE "products", params)]

RestIdle(c) ==
    /\ req[c].pc # "list" /\ ls[c].pc = "idle"
    /\ av[c].pc = "idle" /\ pg[c].pc = "idle" /\ rpc[c].pc = "idle" /\ us[c].pc = "idle"

\* Lines 100-121.
RestListCategories(c, limitStr, pageStr) ==
    /\ RestIdle(c)
    /\ RestCall(c, "ListCategories", limitStr, pageStr,
                ListCategoriesParams(RestLimit(limitStr),
                                     RestOffset(RestPage(pageStr), RestLimit(limitStr))))
    /\ UNCHANGED <<catVars, storeVars, stockVars, batchVars, av, pg>>

\* Lines 323-394, with the category_id and is_active filters of the query;
\* a filter that does not parse answers 400 before any store call.
RestListProducts(c, limitStr, pageStr, catStr, activeStr) ==
    LET cat == Atoi(catStr)
        active == ParseBool(activeStr)
        f == [IdleReq EXCEPT !.op = "ListProducts", !.limitStr = limitStr,
                             !.pageStr = pageStr, !.limit = RestLimit(limitStr),
                             !.page = RestPage(pageStr)]
    IN  /\ RestIdle(c)
        /\ IF catStr # <<>> /\ ~(cat.ok /\ cat.value > 0)
           THEN /\ req' = [req EXCEPT ![c] =
                              Respond(f, 400, "Invalid category_id format", NoBody)]
                /\ UNCHANGED ls
           ELSE IF activeStr # "" /\ ~active.ok
           THEN /\ req' = [req EXCEPT ![c] =
                              Respond(f, 400, "Invalid is_active value", NoBody)]
                /\ UNCHANGED ls
           ELSE RestCall(c, "ListProducts", limitStr, pageStr,
                         ListProductsParams(
                             RestLimit(limitStr),
                             RestOffset(RestPage(pageStr), RestLimit(limitStr)),
                             <<>>,
                             IF catStr # <<>> THEN cat.value ELSE 0,
                             IF activeStr = "" THEN "any"
                             ELSE IF active.value THEN "true" ELSE "false"))
        /\ UNCHANGED <<catVars, storeVars, stockVars, batchVars, av, pg>>

TotalPagesFloor(totalCount, limit) == totalCount \div limit

\* totalPages = (totalCount + limit - 1) / limit, 0 for no rows.
TotalPages(totalCount, limit) ==
    IF totalCount > 0 THEN Wrap(totalCount + limit - 1) \div limit ELSE 0

\* Lines 122-159 and 395-432: the store's answer becomes the response.
RestListResult(c) ==
    /\ req[c].pc = "list" /\ ls[c].pc = "ret"
    /\ LET f == req[c]
       IN  req' = [req EXCEPT ![c] =
                      IF ls[c].err # ErrNil
                      THEN Respond([f EXCEPT !.storeErr = ls[c].err], 500,
                                   IF f.op = "ListCategories"
                                   THEN "Failed to retrieve categories"
                                   ELSE "Failed to retrieve products", NoBody)
                      ELSE Respond(f, 200, "",
                                   [data |-> ls[c].rows, page |-> f.page,
                                    limit |-> f.limit, totalItems |-> ls[c].total,
                                    totalPages |-> TotalPages(ls[c].total, f.limit)])]
    /\ ls' = [ls EXCEPT ![c] = IdleList]
    /\ UNCHANGED <<catVars, storeVars, stockVars, batchVars, av, pg>>

\* ------------------------------- store: single-statement reads and writes
\* Every method below is one SQL statement.  fault is what the driver
\* reported for it: ErrNil, or a failure that the method returns wrapped
\* and that leaves the table as it was.
Faults == {ErrNil} \cup StoreFailures

crudVars == <<us, seen, batchVars, ls, av, pg>>

\* What a store method hands back: the error, whether the entity pointer is
\* nil, the entity, and the table and its sequence after the statement.
StoreFails(err, none, table, next) ==
    [err |-> err, nil |-> TRUE, entity |-> none, table |-> table, next |-> next]

StoreOk(entity, table, next) ==
    [err |-> ErrNil, nil |-> FALSE, entity |-> entity, table |-> table, next |-> next]

CategoryLive(id) == id \in CategoryIds /\ categories[id].live
ProductLive(id) == id \in ProductIds /\ products[id].live

NameTakenNever(name, self) == FALSE

\* The unique index categories_name_key: another row carries the name.
NameTaken(name, self) ==
    \E id \in CategoryIds : id # self /\ categories[id].live /\ categories[id].name = name

\* The unique index products_sku_key.
SkuTaken(sku, self) ==
    \E id \in ProductIds : id # self /\ products[id].live /\ products[id].sku = sku

\* A store that hands out the lowest id no row holds.
StoreCreateCategoryReuse(name, parent, fault) ==
    LET id == IF \E i \in CategoryIds : ~categories[i].live
              THEN CHOOSE i \in CategoryIds :
                      ~categories[i].live /\ \A j \in 1..(i - 1) : categories[j].live
              ELSE nextCatId
    IN  IF fault # ErrNil THEN StoreFails(fault, NoCategory, categories, nextCatId)
        ELSE IF NameTaken(name, 0) \/ id \notin CategoryIds
        THEN StoreFails(ErrCategoryNameExists, NoCategory, categories, nextCatId)
        ELSE StoreOk(NewCategory(id, name, parent),
                     [categories EXCEPT ![id] = NewCategory(id, name, parent)],
                     IF id = nextCatId THEN nextCatId + 1 ELSE nextCatId)

StoreCreateCategory(name, parent, fault) ==
    IF fault # ErrNil THEN StoreFails(fault, NoCategory, categories, nextCatId)
    ELSE IF NameTaken(name, 0)
    THEN StoreFails(ErrCategoryNameExists, NoCategory, categories, nextCatId)
    ELSE StoreOk(NewCategory(nextCatId, name, parent),
                 [categories EXCEPT ![nextCatId] = NewCategory(nextCatId, name, parent)],
                 nextCatId + 1)

StoreGetCategoryByID(id, fault) ==
    IF fault # ErrNil THEN StoreFails(fault, NoCategory, categories, nextCatId)
    ELSE IF ~CategoryLive(id)
    THEN StoreFails(ErrCategoryNotFound, NoCategory, categories, nextCatId)
    ELSE StoreOk(categories[id], categories, nextCatId)

StoreUpdateCategory(id, name, parent, fault) ==
    IF fault # ErrNil THEN StoreFails(fault, NoCategory, categories, nextCatId)
    ELSE IF ~CategoryLive(id)
    THEN StoreFails(ErrCategoryNotFound, NoCategory, categories, nextCatId)
    ELSE IF NameTaken(name, id)
    THEN StoreFails(ErrCategoryNameExists, NoCategory, categories, nextCatId)
    ELSE StoreOk(NewCategory(id, name, parent),
                 [categories EXCEPT ![id] = NewCategory(id, name, parent)], nextCatId)

\* rowsAffected == 0 is the only sign that the id is unknown.
DeleteReportsAlways(live) == TRUE
DeleteReports(live) == live

StoreDeleteCategory(id, fault) ==
    IF fault # ErrNil THEN StoreFails(fault, NoCategory, categories, nextCatId)
    ELSE IF ~DeleteReports(CategoryLive(id))
    THEN StoreFails(ErrCategoryNotFound, NoCategory, categories, nextCatId)
    ELSE [StoreOk(NoCategory,
                  IF CategoryLive(id) THEN [categories EXCEPT ![id] = NoCategory]
                  ELSE categories, nextCatId)
          EXCEPT !.nil = TRUE]

StoreCreateProduct(p, fault) ==
    IF fault # ErrNil THEN StoreFails(fault, NoRow, products, nextId)
    ELSE IF SkuTaken(p.sku, 0)
    THEN StoreFails(ErrProductSKUExists, NoRow, products, nextId)
    ELSE LET row == [p EXCEPT !.id = nextId, !.attrs = AttributesJSON(p.attrs)]
         IN  StoreOk(ScanProduct(row), [products EXCEPT ![nextId] = row], nextId + 1)

StoreGetProductByID(id, fault) ==
    IF fault # ErrNil THEN StoreFails(fault, NoRow, products, nextId)
    ELSE IF ~ProductLive(id) THEN StoreFails(ErrProductNotFound, NoRow, products, nextId)
    ELSE StoreOk(ScanProduct(products[id]), products, nextId)

StoreUpdateProduct(p, fault) ==
    IF fault # ErrNil THEN StoreFails(fault, NoRow, products, nextId)
    ELSE IF ~ProductLive(p.id) THEN StoreFails(ErrProductNotFound, NoRow, products, nextId)
    ELSE IF SkuTaken(p.sku, p.id)
    THEN StoreFails(ErrProductSKUExists, NoRow, products, nextId)
    ELSE LET row == [p EXCEPT !.attrs = AttributesJSON(p.attrs)]
         IN  StoreOk(ScanProduct(row), [products EXCEPT ![p.id] = row], nextId)

StoreDeleteProduct(id, fault) ==
    IF fault # ErrNil THEN StoreFails(fault, NoRow, products, nextId)
    ELSE IF ~DeleteReports(ProductLive(id))
    THEN StoreFails(ErrProductNotFound, NoRow, products, nextId)
    ELSE [StoreOk(NoRow,
                  IF ProductLive(id) THEN [products EXCEPT ![id] = NoRow] ELSE products,
                  nextId)
          EXCEPT !.nil = TRUE]

\* ------------------------------------------- REST: create, read, update, delete
\* The if-chain of a handler's error branch: the store errors it tells
\* apart, each with the status and message it answers; every other error
\* gets 500 and the handler's fixed message.
Branch(err, status, msg) == [err |-> err, status |-> status, msg |-> msg]
NotFoundBranch(err) == Branch(err, 404, err)
ConflictBranch(err) == Branch(err, 409, err)
InvalidCategoryBranch ==
    Branch(ErrCategoryNotFound, 400, "Invalid category_id: category does not exist.")

RespondStoreErrorGeneric(f, err, chain, generic) ==
    Respond([f EXCEPT !.storeErr = err], 500, generic, NoBody)

RespondStoreError(f, err, chain, generic) ==
    LET hits == {i \in 1..Len(chain) : chain[i].err = err}
    IN  IF hits = {} THEN Respond([f EXCEPT !.storeErr = err], 500, generic, NoBody)
        ELSE LET b == chain[CHOOSE i \in hits : \A j \in hits : i <= j]
             IN  Respond([f EXCEPT !.storeErr = err], b.status, b.msg, NoBody)

\* The store was called once more and answered r.
StoreAnswer(f, r, okStatus, chain, generic) ==
    LET g == [f EXCEPT !.calls = f.calls + 1, !.storeNil = r.nil]
    IN  IF r.err # ErrNil THEN RespondStoreError(g, r.err, chain, generic)
        ELSE Respond(g, okStatus, "", IF r.nil THEN NoBody ELSE r.entity)

CrudIdle(c) ==
    /\ req[c].pc = "idle" /\ ls[c].pc = "idle"
    /\ av[c].pc = "idle" /\ pg[c].pc = "idle" /\ rpc[c].pc = "idle" /\ us[c].pc = "idle"

\* The connection is ready for its next request.
RestClose(c) ==
    /\ req[c].pc = "done"
    /\ req' = [req EXCEPT ![c] = IdleReq]
    /\ UNCHANGED <<catVars, storeVars, ledger, crudVars>>

\* strconv.ParseInt(idStr, 10, 64) and the test categoryID <= 0.
UrlId(idStr) ==
    LET parsed == Atoi(idStr)
    IN  IF parsed.ok /\ parsed.value > 0 THEN parsed.value ELSE 0

\* validate.Struct: name is required; parent_category_id, when present,
\* is positive.  parent 0 is the absent field, a negative one a present
\* field that is not positive.
CategoryInputValid(name, parent) == name # "" /\ parent >= 0

SelfParentNever(parent, id) == FALSE
SelfParent(parent, id) == parent # 0 /\ parent = id

CategoryWrite(c, f, r) ==
    /\ req' = [req EXCEPT ![c] = f]
    /\ categories' = r.table
    /\ nextCatId' = r.next
    /\ UNCHANGED <<storeVars, ledger, crudVars, sd>>

CategoryReject(c, f) ==
    /\ req' = [req EXCEPT ![c] = f]
    /\ UNCHANGED <<catVars, storeVars, ledger, crudVars>>

\* Lines 67-98.
\* clientId is an "id" member of the JSON payload: CategoryCreateInput has no
\* such field, so the decoder drops it; the frame keeps it as what was asked.
RestCreateCategoryOf(c, name, parent, clientId, fault) ==
    LET f == [IdleReq EXCEPT !.op = "CreateCategory", !.name = name, !.parent = parent,
                             !.id = clientId]
        r == StoreCreateCategory(name, parent, fault)
    IN  /\ CrudIdle(c)
        /\ IF ~CategoryInputValid(name, parent)
           THEN CategoryReject(c, Respond(f, 400, "Validation failed", NoBody))
           ELSE /\ r.err = ErrNil => nextCatId <= MaxCatId
                /\ CategoryWrite(c, StoreAnswer(f, r, 201,
                                                <<ConflictBranch(ErrCategoryNameExists)>>,
                                                "Failed to create category"), r)

RestCreateCategory(c, name, parent, fault) == RestCreateCategoryOf(c, name, parent, 0, fault)

\* Lines 162-183.
RestGetCategoryByID(c, idStr, fault) ==
    LET id == UrlId(idStr)
        f == [IdleReq EXCEPT !.op = "GetCategoryByID", !.id = id]
        r == StoreGetCategoryByID(id, fault)
    IN  /\ CrudIdle(c)
        /\ IF id = 0
           THEN CategoryReject(c, Respond(f, 400, "Invalid category ID format", NoBody))
           ELSE CategoryWrite(c, StoreAnswer(f, r, 200,
                                             <<NotFoundBranch(ErrCategoryNotFound)>>,
                                             "Failed to retrieve category"), r)

\* Lines 191-238.
RestUpdateCategory(c, idStr, name, parent, fault) ==
    LET id == UrlId(idStr)
        f == [IdleReq EXCEPT !.op = "UpdateCategory", !.id = id, !.name = name,
                             !.parent = parent]
        r == StoreUpdateCategory(id, name, parent, fault)
    IN  /\ CrudIdle(c)
        /\ IF id = 0
           THEN CategoryReject(c, Respond(f, 400, "Invalid category ID format", NoBody))
           ELSE IF ~CategoryInputValid(name, parent)
           THEN CategoryReject(c, Respond(f, 400, "Validation failed", NoBody))
           ELSE IF SelfParent(parent, id)
           THEN CategoryReject(c, Respond(f, 400, "Category cannot be its own parent",
                                          NoBody))
           ELSE CategoryWrite(c, StoreAnswer(f, r, 200,
                                             <<NotFoundBranch(ErrCategoryNotFound),
                                               ConflictBranch(ErrCategoryNameExists)>>,
                                             "Failed to update category"), r)

\* Lines 240-261.
RestDeleteCategory(c, idStr, fault) ==
    LET id == UrlId(idStr)
        f == [IdleReq EXCEPT !.op = "DeleteCategory", !.id = id]
        r == StoreDeleteCategory(id, fault)
    IN  /\ CrudIdle(c)
        /\ IF id = 0
           THEN CategoryReject(c, Respond(f, 400, "Invalid category ID format", NoBody))
           ELSE CategoryWrite(c, StoreAnswer(f, r, 204,
                                             <<NotFoundBranch(ErrCategoryNotFound)>>,
                                             "Failed to delete category"), r)

\* validate.Struct on a product input: sku is required, and so are price and
\* stock_quantity, which the validator takes as absent when they are zero.
ProductInputValid(sku, stock) == sku # "" /\ stock > 0

\* The domain.Product a handler builds: is_active defaults to true, absent
\* attributes are stored as the text null.
ProductOf(id, sku, stock) == NewRow(id, "p", sku, 1, stock, 0, TRUE, "null")

ProductWith(id, sku, stock, attrs) == [ProductOf(id, sku, stock) EXCEPT !.attrs = attrs]

ProductWrite(c, f, r) ==
    /\ req' = [req EXCEPT ![c] = f]
    /\ products' = r.table
    /\ nextId' = r.next
    /\ ledger' = [id \in ProductIds |->
                    IF r.table[id] # products[id] /\ r.table[id].live
                    THEN r.table[id].stock ELSE ledger[id]]
    /\ UNCHANGED <<catVars, crudVars>>

ProductReject(c, f) ==
    /\ req' = [req EXCEPT ![c] = f]
    /\ UNCHANGED <<catVars, storeVars, ledger, crudVars>>

\* Lines 277-321.
\* clientId as in RestCreateCategoryOf: ProductCreateInput has no id field.
RestCreateProductOf(c, sku, stock, attrs, clientId, fault) ==
    LET f == [IdleReq EXCEPT !.op = "CreateProduct", !.sku = sku, !.stock = stock,
                             !.attrs = attrs, !.id = clientId]
        r == StoreCreateProduct(ProductWith(0, sku, stock, attrs), fault)
    IN  /\ CrudIdle(c)
        /\ IF ~ProductInputValid(sku, stock)
           THEN ProductReject(c, Respond(f, 400, "Validation failed", NoBody))
           ELSE /\ r.err = ErrNil => nextId <= MaxId
                /\ ProductWrite(c, StoreAnswer(f, r, 201,
                                               <<ConflictBranch(ErrProductSKUExists),
                                                 InvalidCategoryBranch>>,
                                               "Failed to create product"), r)

RestCreateProductWith(c, sku, stock, attrs, fault) ==
    RestCreateProductOf(c, sku, stock, attrs, 0, fault)

\* A request without the attributes field.
RestCreateProduct(c, sku, stock, fault) == RestCreateProductWith(c, sku, stock, NoAttrs, fault)

\* Lines 447-467.
RestGetProductByID(c, idStr, fault) ==
    LET id == UrlId(idStr)
        f == [IdleReq EXCEPT !.op = "GetProductByID", !.id = id]
        r == StoreGetProductByID(id, fault)
    IN  /\ CrudIdle(c)
        /\ IF id = 0
           THEN ProductReject(c, Respond(f, 400, "Invalid product ID format", NoBody))
           ELSE ProductWrite(c, StoreAnswer(f, r, 200,
                                            <<NotFoundBranch(ErrProductNotFound)>>,
                                            "Failed to retrieve product"), r)

\* Lines 481-517: the existence check.  A product that exists leaves the
\* handler before its second store call.
RestUpdateProductWith(c, idStr, sku, stock, attrs, fault) ==
    LET id == UrlId(idStr)
        f == [IdleReq EXCEPT !.op = "UpdateProduct", !.id = id, !.sku = sku,
                             !.stock = stock, !.attrs = attrs]
        r == StoreGetProductByID(id, fault)
    IN  /\ CrudIdle(c)
        /\ IF id = 0
           THEN ProductReject(c, Respond(f, 400, "Invalid product ID format", NoBody))
           ELSE IF ~ProductInputValid(sku, stock)
           THEN ProductReject(c, Respond(f, 400, "Validation failed", NoBody))
           ELSE IF r.err # ErrNil
           THEN ProductReject(c, StoreAnswer(f, r, 200,
                                             <<NotFoundBranch(ErrProductNotFound)>>,
                                             "Error checking product existence"))
           ELSE ProductReject(c, [f EXCEPT !.pc = "update", !.calls = 1])

RestUpdateProduct(c, idStr, sku, stock, fault) ==
    RestUpdateProductWith(c, idStr, sku, stock, NoAttrs, fault)

\* Lines 519-556: the update itself.
RestUpdateProductWrite(c, fault) ==
    LET f == req[c]
        r == StoreUpdateProduct(ProductWith(f.id, f.sku, f.stock, f.attrs), fault)
    IN  /\ f.pc = "update"
        /\ ProductWrite(c, StoreAnswer(f, r, 200,
                                       <<NotFoundBranch(ErrProductNotFound),
                                         ConflictBranch(ErrProductSKUExists),
                                         InvalidCategoryBranch>>,
                                       "Failed to update product"), r)

\* Lines 558-578.
RestDeleteProduct(c, idStr, fault) ==
    LET id == UrlId(idStr)
        f == [IdleReq EXCEPT !.op = "DeleteProduct", !.id = id]
        r == StoreDeleteProduct(id, fault)
    IN  /\ CrudIdle(c)
        /\ IF id = 0
           THEN ProductReject(c, Respond(f, 400, "Invalid product ID format", NoBody))
           ELSE ProductWrite(c, StoreAnswer(f, r, 204,
                                            <<NotFoundBranch(ErrProductNotFound)>>,
                                            "Failed to delete product"), r)

\* ------------------------------- gRPC: GetCategoryDetails, GetProductDetails
RespondRpc(f, st, body) == [f EXCEPT !.pc = "done", !.grpc = st, !.body = body]

InvalidId(id) == id <= 0

\* Lines 698-716.
GetCategoryDetails(c, id, fault) ==
    LET f == [IdleReq EXCEPT !.op = "GetCategoryDetails", !.id = id]
        r == StoreGetCategoryByID(id, fault)
        g == [f EXCEPT !.calls = 1, !.storeErr = r.err, !.storeNil = r.nil]
    IN  /\ CrudIdle(c)
        /\ IF InvalidId(id)
           THEN CategoryReject(c, RespondRpc(f, Status("InvalidArgument",
                                                       "Category ID must be a positive integer",
                                                       0), NoBody))
           ELSE IF r.err # ErrNil
           THEN CategoryReject(c, RespondRpc(g, MapStoreErrorToGrpcStatus(r.err, id),
                                             NoBody))
           ELSE CategoryReject(c, RespondRpc(g, StatusOK,
                                             ConvertDomainCategoryToProto(r.entity)))

\* Lines 778-802.
GetProductDetails(c, id, fault) ==
    LET f == [IdleReq EXCEPT !.op = "GetProductDetails", !.id = id]
        r == StoreGetProductByID(id, fault)
        g == [f EXCEPT !.calls = 1, !.storeErr = r.err, !.storeNil = r.nil]
        pb == ConvertDomainProductToProto(r.entity)
    IN  /\ CrudIdle(c)
        /\ IF InvalidId(id)
           THEN ProductReject(c, RespondRpc(f, Status("InvalidArgument",
                                                      "Product ID must be a positive integer",
                                                      0), NoBody))
           ELSE IF r.err # ErrNil
           THEN ProductReject(c, RespondRpc(g, MapStoreErrorToGrpcStatus(r.err, id),
                                            NoBody))
           ELSE IF ~pb.ok
           THEN ProductReject(c, RespondRpc(g, Status("Internal",
                                                      "Failed to process product data", id),
                                            NoBody))
           ELSE ProductReject(c, RespondRpc(g, StatusOK, pb.product))

\* ---------------------------------------------------------- specifications
StockStocks == 0..MaxQty

\* No request is in progress.
\* The process after main has started both servers and the goroutine of
\* waitForShutdown (lines 101-126): pc is the position of waitForShutdown,
\* gstop that of the goroutine around GracefulStop, httpActive and rpcActive
\* count the requests the servers are handling.
Serving ==
    [pc |-> "sigChan", gstop |-> "none", main |-> "blocked",
     sigChan |-> FALSE, shutdownCtx |-> "none", shutdownErr |-> FALSE, forced |-> FALSE,
     httpServer |-> "serving", grpcServer |-> "serving",
     httpActive |-> 0, rpcActive |-> 0,
     stoppedGrpc |-> FALSE, db |-> "open", shutdownComplete |-> FALSE]

NoCalls ==
    /\ sd = Serving
    /\ us = [c \in Clients |-> IdleFrame]
    /\ seen = [c \in Clients |-> NothingSeen]
    /\ rpc = [c \in Clients |-> IdleRpc]
    /\ outcomes = [c \in Clients |-> <<>>]
    /\ ls = [c \in Clients |-> IdleList]
    /\ av = [c \in Clients |-> IdleAvail]
    /\ pg = [c \in Clients |-> IdlePage]
    /\ req = [c \in Clients |-> IdleReq]

NoCategories ==
    /\ categories = [id \in CategoryIds |-> NoCategory]
    /\ nextCatId = 1

\* The service starts on empty tables.
Init ==
    /\ products = [id \in ProductIds |-> NoRow]
    /\ nextId = 1
    /\ NoCategories
    /\ NoCalls
    /\ ledger = [id \in ProductIds |-> 0]

\* Concurrent callers of the store's UpdateStock, with products created and
\* deleted meanwhile.
Next ==
    \/ \E stock \in StockStocks : CreateProduct("p", SkuNames[nextId], 1, stock, 0, TRUE, "null")
    \/ \E id \in ProductIds : DeleteProduct(id)
    \/ \E c \in Clients, id \in ProductIds, delta \in Deltas : UpdateStockCall(c, id, delta)
    \/ \E c \in Clients : UpdateStmtRow(c)
    \/ \E c \in Clients : UpdateStmtNoRows(c)
    \/ \E c \in Clients : UpdateStmtError(c)
    \/ \E c \in Clients, queryOk \in BOOLEAN : ExistsStmt(c, queryOk)
    \/ \E c \in Clients : UpdateStockReturn(c)

Spec == Init /\ [][Next]_vars

BatchStocks == 0..1
BatchAttrs == {"{}", "[1]"}
BatchDeltas == {0 - 1, 1}

\* Tables a running service can hold: every id either deleted or a live row.
BatchRows(id) ==
    {NoRow} \cup {NewRow(id, "p", SkuNames[id], 1, stock, 0, TRUE, attrs) :
                    stock \in BatchStocks, attrs \in BatchAttrs}
BatchTables == {t \in [ProductIds -> UNION {BatchRows(id) : id \in ProductIds}] :
                  \A id \in ProductIds : t[id] \in BatchRows(id)}
BatchItems == [id : 0..MaxId, delta : BatchDeltas]
BatchRequests == UNION {[1..n -> BatchItems] : n \in 0..MaxItems}

BatchInit ==
    /\ products \in BatchTables
    /\ nextId = MaxId + 1
    /\ NoCategories
    /\ NoCalls
    /\ ledger = [id \in ProductIds |-> products[id].stock]

\* One batch UpdateStock request, while other requests adjust the same rows.
NoOtherBatch(c) == \A d \in Clients \ {c} : rpc[d].pc = "idle"

BatchNext ==
    \/ \E c \in Clients :
          /\ NoOtherBatch(c) /\ rpc[c].pc = "idle"
          /\ \E items \in BatchRequests : UpdateStockRpc(c, items)
    \/ \E id \in ProductIds, delta \in BatchDeltas : ConcurrentUpdateStock(id, delta)
    \/ \E c \in Clients : UpdateStockRpcSkip(c)
    \/ \E c \in Clients : UpdateStockRpcCallStore(c)
    \/ \E c \in Clients : UpdateStmtRow(c)
    \/ \E c \in Clients : UpdateStmtNoRows(c)
    \/ \E c \in Clients : UpdateStmtError(c)
    \/ \E c \in Clients, queryOk \in BOOLEAN : ExistsStmt(c, queryOk)
    \/ \E c \in Clients : UpdateStockRpcItemResult(c)
    \/ \E c \in Clients : UpdateStockRpcFinish(c)

BatchSpec == BatchInit /\ [][BatchNext]_vars

AvailStocks == 1..MaxQty
AvailQuantities == 0..MaxQty

AvailRows(id) ==
    {NoRow} \cup {NewRow(id, "p", SkuNames[id], 1, stock, 0, active, "{}") :
                    stock \in AvailStocks, active \in BOOLEAN}
AvailTables == {t \in [ProductIds -> UNION {AvailRows(id) : id \in ProductIds}] :
                  \A id \in ProductIds : t[id] \in AvailRows(id)}
AvailItems == [id : 0..MaxId, qty : AvailQuantities]
AvailRequests == UNION {[1..n -> AvailItems] : n \in 0..MaxItems}

AvailInit ==
    /\ products \in AvailTables
    /\ nextId = MaxId + 1
    /\ NoCategories
    /\ NoCalls
    /\ ledger = [id \in ProductIds |-> products[id].stock]

NoOtherCheck(c) == \A d \in Clients \ {c} : av[d].pc = "idle"

\* One CheckProductsAvailability request, while other requests adjust and
\* delete the rows it reads.
AvailNext ==
    \/ \E c \in Clients :
          /\ NoOtherCheck(c) /\ av[c].pc = "idle"
          /\ \E items \in AvailRequests : CheckProductsAvailability(c, items)
    \/ \E c \in Clients : ListCountStmt(c)
    \/ \E c \in Clients : ListDataStmt(c)
    \/ \E c \in Clients : ListStmtError(c)
    \/ \E c \in Clients : CheckProductsAvailabilityResult(c)
    \/ \E id \in ProductIds, delta \in BatchDeltas : ConcurrentUpdateStock(id, delta)
    \/ \E id \in ProductIds : DeleteProduct(id)

AvailSpec == AvailInit /\ [][AvailNext]_vars

ListCats == {0, 1}
PageSizes == {0, 1, MaxPageSize + 1}
TokenChars == {"0", "1", "-", "+", "x"}
Tokens == UNION {[1..n -> TokenChars] : n \in 0..MaxTokenLen}
IdFilters == {<<>>, <<MaxId>>}

ListRows(id) ==
    {NoRow} \cup {NewRow(id, "p", SkuNames[id], 1, 1, cat, active, attrs) :
                    cat \in ListCats, active \in BOOLEAN, attrs \in BatchAttrs}
ListTables == {t \in [ProductIds -> UNION {ListRows(id) : id \in ProductIds}] :
                 \A id \in ProductIds : t[id] \in ListRows(id)}

\* Names fall in the reverse of the order of creation.
CatRows(id) == {NoCategory, NewCategory(id, CatNames[Len(CatNames) - (id - 1)], 0)}
CatTables == {t \in [CategoryIds -> UNION {CatRows(id) : id \in CategoryIds}] :
                \A id \in CategoryIds : t[id] \in CatRows(id)}

NoProducts == [id \in ProductIds |-> NoRow]

\* The tables at the start of the request: products with no categories, or
\* categories with no products.
ListInit ==
    /\ \/ products \in ListTables /\ categories = [id \in CategoryIds |-> NoCategory]
       \/ products = NoProducts /\ categories \in CatTables
    /\ nextId = MaxId + 1
    /\ nextCatId = MaxCatId + 1
    /\ NoCalls
    /\ ledger = [id \in ProductIds |-> products[id].stock]

NoOtherPage(c) == \A d \in Clients \ {c} : pg[d].pc = "idle"

\* One page request of either RPC list operation, on tables that other
\* requests leave alone meanwhile.
ListNext ==
    \/ \E c \in Clients :
          /\ NoOtherPage(c) /\ pg[c].pc = "idle"
          /\ \E pageSize \in PageSizes, token \in Tokens, parent \in ListCats :
                ListCategoriesInternal(c, pageSize, token, parent)
    \/ \E c \in Clients :
          /\ NoOtherPage(c) /\ pg[c].pc = "idle"
          /\ \E pageSize \in PageSizes, token \in Tokens, cat \in ListCats,
                ids \in IdFilters, inactive \in BOOLEAN :
                ListProductsInternal(c, pageSize, token, cat, ids, inactive)
    \/ \E c \in Clients : ListCountStmt(c)
    \/ \E c \in Clients : ListDataStmt(c)
    \/ \E c \in Clients : ListStmtError(c)
    \/ \E c \in Clients : ListCategoriesInternalResult(c)
    \/ \E c \in Clients : ListProductsInternalResult(c)

ListSpec == ListInit /\ [][ListNext]_vars

\* Query texts for limit and page, and for the filters of the product list.
QueryInts ==
    {<<>>, <<"x">>, Itoa(0 - 1), Itoa(0), Itoa(1), Itoa(2), Itoa(MaxPageSize),
     Itoa(MaxPageSize + 1), Itoa(MaxInt), Itoa(MaxInt + 1)}
CatStrs == {<<>>, <<"1">>, <<"0">>}
ActiveStrs == {"", "true", "maybe"}
PagingTokens == {<<>>, <<"1">>, <<"-", "1">>, Itoa(MaxInt)}

\* An availability request of more items than the largest page.
ManyItems == [i \in 1..(MaxPageSize + 1) |-> [id |-> 1, qty |-> 1]]
PagingRequests == {<<>>, <<[id |-> 1, qty |-> 1]>>, ManyItems}

PagingRows(id) == {NoRow, NewRow(id, "p", SkuNames[id], 1, 1, 1, TRUE, "{}")}
PagingTables == {t \in [ProductIds -> UNION {PagingRows(id) : id \in ProductIds}] :
                   \A id \in ProductIds : t[id] \in PagingRows(id)}

PagingInit ==
    /\ \/ products \in PagingTables /\ categories = [id \in CategoryIds |-> NoCategory]
       \/ products = NoProducts /\ categories \in CatTables
    /\ nextId = MaxId + 1
    /\ nextCatId = MaxCatId + 1
    /\ NoCalls
    /\ ledger = [id \in ProductIds |-> products[id].stock]

\* One client at a time lists, over REST or RPC, or checks availability.
OnlyClient(c) ==
    \A d \in Clients \ {c} :
        req[d].pc = "idle" /\ pg[d].pc = "idle" /\ av[d].pc = "idle"

PagingNext ==
    \/ \E c \in Clients :
          /\ OnlyClient(c) /\ CrudIdle(c)
          /\ \E limitStr \in QueryInts, pageStr \in QueryInts :
                RestListCategories(c, limitStr, pageStr)
    \/ \E c \in Clients :
          /\ OnlyClient(c) /\ CrudIdle(c)
          /\ \E limitStr \in QueryInts, pageStr \in QueryInts, catStr \in CatStrs,
                activeStr \in ActiveStrs :
                RestListProducts(c, limitStr, pageStr, catStr, activeStr)
    \/ \E c \in Clients : RestListResult(c)
    \/ \E c \in Clients :
          /\ OnlyClient(c) /\ pg[c].pc = "idle" /\ req[c].pc = "idle"
          /\ \E pageSize \in PageSizes, token \in PagingTokens, parent \in ListCats :
                ListCategoriesInternal(c, pageSize, token, parent)
    \/ \E c \in Clients :
          /\ OnlyClient(c) /\ pg[c].pc = "idle" /\ req[c].pc = "idle"
          /\ \E pageSize \in PageSizes, token \in PagingTokens, cat \in ListCats,
                ids \in IdFilters, inactive \in BOOLEAN :
                ListProductsInternal(c, pageSize, token, cat, ids, inactive)
    \/ \E c \in Clients : ListCategoriesInternalResult(c)
    \/ \E c \in Clients : ListProductsInternalResult(c)
    \/ \E c \in Clients :
          /\ OnlyClient(c) /\ av[c].pc = "idle" /\ req[c].pc = "idle"
          /\ \E items \in PagingRequests : CheckProductsAvailability(c, items)
    \/ \E c \in Clients : CheckProductsAvailabilityResult(c)
    \/ \E c \in Clients : ListCountStmt(c)
    \/ \E c \in Clients : ListDataStmt(c)
    \/ \E c \in Clients : ListStmtError(c)

PagingSpec == PagingInit /\ [][PagingNext]_vars

\* Create, read, update and delete over REST, and the two RPC detail calls,
\* from empty tables with sequential ids; any statement may fail.
CrudNames == {"", "a", "b"}
CrudParents == (0 - 1)..MaxCatId
UrlIds == {<<"x">>} \cup {Itoa(n) : n \in 0..(MaxCatId + 1)}
CrudSkus == {"", "s1", "s2"}
CrudStocks == 0..1
RpcIds == (0 - 1)..(MaxId + 1)

CrudInit == Init

CrudClient(c) == CrudIdle(c) /\ \A d \in Clients \ {c} : req[d].pc = "idle"

CrudNext ==
    \/ \E c \in Clients :
          /\ CrudClient(c)
          /\ \E name \in CrudNames, parent \in CrudParents, fault \in Faults :
                RestCreateCategory(c, name, parent, fault)
    \/ \E c \in Clients :
          /\ CrudClient(c)
          /\ \E idStr \in UrlIds, fault \in Faults : RestGetCategoryByID(c, idStr, fault)
    \/ \E c \in Clients :
          /\ CrudClient(c)
          /\ \E idStr \in UrlIds, name \in CrudNames, parent \in CrudParents,
                fault \in Faults :
                RestUpdateCategory(c, idStr, name, parent, fault)
    \/ \E c \in Clients :
          /\ CrudClient(c)
          /\ \E idStr \in UrlIds, fault \in Faults : RestDeleteCategory(c, idStr, fault)
    \/ \E c \in Clients :
          /\ CrudClient(c)
          /\ \E sku \in CrudSkus, stock \in CrudStocks, fault \in Faults :
                RestCreateProduct(c, sku, stock, fault)
    \/ \E c \in Clients :
          /\ CrudClient(c)
          /\ \E idStr \in UrlIds, fault \in Faults : RestGetProductByID(c, idStr, fault)
    \/ \E c \in Clients :
          /\ CrudClient(c)
          /\ \E idStr \in UrlIds, sku \in CrudSkus, stock \in CrudStocks, fault \in Faults :
                RestUpdateProduct(c, idStr, sku, stock, fault)
    \/ \E c \in Clients, fault \in Faults : RestUpdateProductWrite(c, fault)
    \/ \E c \in Clients :
          /\ CrudClient(c)
          /\ \E idStr \in UrlIds, fault \in Faults : RestDeleteProduct(c, idStr, fault)
    \/ \E c \in Clients :
          /\ CrudClient(c)
          /\ \E id \in RpcIds, fault \in Faults : GetCategoryDetails(c, id, fault)
    \/ \E c \in Clients :
          /\ CrudClient(c)
          /\ \E id \in RpcIds, fault \in Faults : GetProductDetails(c, id, fault)
    \/ \E c \in Clients : CrudClient(c) /\ RestListCategories(c, <<>>, <<>>)
    \/ \E c \in Clients : CrudClient(c) /\ RestListProducts(c, <<>>, <<>>, <<>>, "")
    \/ \E c \in Clients : ListCountStmt(c)
    \/ \E c \in Clients : ListDataStmt(c)
    \/ \E c \in Clients : ListStmtError(c)
    \/ \E c \in Clients : RestListResult(c)
    \/ \E c \in Clients : RestClose(c)

CrudSpec == CrudInit /\ [][CrudNext]_vars


\* Two clients whose statements fail, each for one cause or another, on
\* tables that hold one category and one product.
CauseInit ==
    /\ categories = [id \in CategoryIds |->
                       IF id = 1 THEN NewCategory(1, "a", 0) ELSE NoCategory]
    /\ nextCatId = 2
    /\ products = [id \in ProductIds |-> IF id = 1 THEN ProductOf(1, "s1", 1) ELSE NoRow]
    /\ nextId = 2
    /\ ledger = [id \in ProductIds |-> products[id].stock]
    /\ NoCalls

CauseNext ==
    \/ \E c \in Clients, fault \in StoreFailures : RestCreateCategory(c, "b", 0, fault)
    \/ \E c \in Clients, fault \in StoreFailures : RestGetCategoryByID(c, Itoa(1), fault)
    \/ \E c \in Clients, fault \in StoreFailures :
          RestUpdateCategory(c, Itoa(1), "b", 0, fault)
    \/ \E c \in Clients, fault \in StoreFailures : RestDeleteCategory(c, Itoa(1), fault)
    \/ \E c \in Clients, fault \in StoreFailures : RestCreateProduct(c, "s2", 1, fault)
    \/ \E c \in Clients, fault \in StoreFailures : RestGetProductByID(c, Itoa(1), fault)
    \/ \E c \in Clients, fault \in Faults : RestUpdateProduct(c, Itoa(1), "s2", 1, fault)
    \/ \E c \in Clients, fault \in StoreFailures : RestUpdateProductWrite(c, fault)
    \/ \E c \in Clients, fault \in StoreFailures : RestDeleteProduct(c, Itoa(1), fault)
    \/ \E c \in Clients, fault \in StoreFailures : GetCategoryDetails(c, 1, fault)
    \/ \E c \in Clients, fault \in StoreFailures : GetProductDetails(c, 1, fault)
    \/ \E c \in Clients : CrudIdle(c) /\ RestListCategories(c, <<>>, <<>>)
    \/ \E c \in Clients : CrudIdle(c) /\ ListCategoriesInternal(c, 0, <<>>, 0)
    \/ \E c \in Clients : ListCountStmt(c)
    \/ \E c \in Clients, err \in StoreFailures : ListStmtErrorCause(c, err)
    \/ \E c \in Clients : RestListResult(c)
    \/ \E c \in Clients : ListCategoriesInternalResult(c)
    \/ \E c \in Clients : RestClose(c)

CauseSpec == CauseInit /\ [][CauseNext]_vars

\* Products created and updated with every kind of attributes value, and
\* read back by id, by list and by a stock adjustment.  The SKU a request
\* gives names the attributes it gives.
AttrSkus == {"absent", "empty", "null", "object", "array", "pair"}

DocOfSku(sku) ==
    CASE sku = "absent" -> NoAttrs
      [] sku = "empty" -> ""
      [] sku = "null" -> "null"
      [] sku = "object" -> "{}"
      [] sku = "array" -> "[1]"
      [] OTHER -> "{\"a\":1}"

AttrIds == {Itoa(n) : n \in 1..MaxId}

\* One request at a time.
AttrClient(c) == CrudClient(c) /\ \A d \in Clients : us[d].pc = "idle"

AttrNext ==
    \/ \E c \in Clients :
          /\ AttrClient(c)
          /\ \E sku \in AttrSkus : RestCreateProductWith(c, sku, 1, DocOfSku(sku), ErrNil)
    \/ \E c \in Clients :
          /\ AttrClient(c)
          /\ \E idStr \in AttrIds, sku \in AttrSkus :
                RestUpdateProductWith(c, idStr, sku, 1, DocOfSku(sku), ErrNil)
    \/ \E c \in Clients : RestUpdateProductWrite(c, ErrNil)
    \/ \E c \in Clients :
          /\ AttrClient(c)
          /\ \E idStr \in AttrIds : RestGetProductByID(c, idStr, ErrNil)
    \/ \E c \in Clients : AttrClient(c) /\ RestListProducts(c, <<>>, <<>>, <<>>, "")
    \/ \E c \in Clients : ListCountStmt(c)
    \/ \E c \in Clients : ListDataStmt(c)
    \/ \E c \in Clients : RestListResult(c)
    \/ \E c \in Clients : RestClose(c)
    \/ \E c \in Clients :
          /\ AttrClient(c)
          /\ \E id \in ProductIds, delta \in Deltas : UpdateStockCall(c, id, delta)
    \/ \E c \in Clients : UpdateStmtRow(c)
    \/ \E c \in Clients : UpdateStmtNoRows(c)
    \/ \E c \in Clients, queryOk \in BOOLEAN : ExistsStmt(c, queryOk)
    \/ \E c \in Clients : UpdateStockReturn(c)

AttrSpec == Init /\ [][AttrNext]_vars

\* GetProductDetails and ListProductsInternal on unchanging products, some
\* of which carry attributes that are not an object.
ConvInit ==
    /\ products \in ListTables
    /\ NoCategories
    /\ nextId = MaxId + 1
    /\ NoCalls
    /\ ledger = [id \in ProductIds |-> products[id].stock]

ConvClient(c) == CrudIdle(c) /\ \A d \in Clients \ {c} : CrudIdle(d)

ConvNext ==
    \/ \E c \in Clients :
          /\ ConvClient(c)
          /\ \E id \in ProductIds : GetProductDetails(c, id, ErrNil)
    \/ \E c \in Clients :
          /\ ConvClient(c)
          /\ \E pageSize \in {0, 1}, token \in {<<>>, <<"1">>}, inactive \in BOOLEAN :
                ListProductsInternal(c, pageSize, token, 0, <<>>, inactive)
    \/ \E c \in Clients : ListCountStmt(c)
    \/ \E c \in Clients : ListDataStmt(c)
    \/ \E c \in Clients : ListProductsInternalResult(c)

ConvSpec == ConvInit /\ [][ConvNext]_vars

\* ================================================================= claims
\* Deltas committed by UPDATE statements whose success has not yet been
\* handed to the caller.
RECURSIVE PendingSum(_, _)
PendingSum(cs, id) ==
    IF cs = {} THEN 0
    ELSE LET c == CHOOSE x \in cs : TRUE
         IN  (IF us[c].pc = "ret" /\ us[c].err = ErrNil /\ us[c].id = id
              THEN us[c].delta ELSE 0) + PendingSum(cs \ {c}, id)

\* C1: starting from non-negative quantities, under every interleaving of
\* concurrent store UpdateStock calls (any deltas, any products, products
\* created and deleted meanwhile) every stored stock quantity is >= 0.
C1_StockNeverNegative == \A id \in ProductIds : products[id].stock >= 0

\* Two concurrent decrements of the last unit: one got it, the other was
\* refused, and the row stands at zero.
C1_Witness ==
    \E c \in Clients, d \in Clients :
        /\ c # d
        /\ us[c].pc = "ret" /\ us[c].err = ErrInsufficientStock
        /\ us[d].pc = "ret" /\ us[d].err = ErrNil /\ us[d].delta < 0
        /\ us[c].id = us[d].id
        /\ products[us[c].id].live /\ products[us[c].id].stock = 0

\* C2: no lost updates.  Each live row holds its quantity at insert plus the
\* deltas of exactly the calls that succeeded (returned, or committed and
\* about to return), and a successful call returns the quantity as it was
\* right after its own adjustment: what its statement found, plus its delta.
C2_NoLostUpdates ==
    /\ \A id \in ProductIds :
          products[id].live => products[id].stock = ledger[id] + PendingSum(Clients, id)
    /\ \A c \in Clients :
          (us[c].pc = "ret" /\ us[c].err = ErrNil) =>
              us[c].product.stock = seen[c].qty + us[c].delta

\* Two calls on the same row have both committed a non-zero delta and
\* neither has returned yet.
C2_Witness ==
    \E c \in Clients, d \in Clients :
        /\ c # d
        /\ us[c].pc = "ret" /\ us[c].err = ErrNil /\ us[c].delta # 0
        /\ us[d].pc = "ret" /\ us[d].err = ErrNil /\ us[d].delta # 0
        /\ us[c].id = us[d].id
        /\ products[us[c].id].live

\* C3: the contract of one UpdateStock call against a working store, on a
\* row that is not created or deleted between the call's two statements.
\* With the row and quantity its UPDATE statement found: an existing row with
\* quantity + delta < 0 gives ErrInsufficientStock and no step of the call
\* writes the table; a missing id gives ErrProductNotFound and no write;
\* otherwise the call succeeds, returns quantity + delta, and its only write
\* sets that row's quantity to quantity + delta.
C3_Step(c) ==
    LET id == us[c].id
        d == us[c].delta
        existed == seen'[c].existed
        q == seen'[c].qty
    IN  /\ (us[c].pc = "update" /\ us'[c].pc = "exists") => products' = products
        /\ (us[c].pc \in {"update", "exists"} /\ us'[c].pc = "ret"
              /\ ~seen'[c].raced /\ ~seen'[c].failed) =>
             /\ (existed /\ q + d < 0) =>
                    (us'[c].err = ErrInsufficientStock /\ products' = products)
             /\ ~existed =>
                    (us'[c].err = ErrProductNotFound /\ products' = products)
             /\ (existed /\ q + d >= 0) =>
                    /\ us'[c].err = ErrNil
                    /\ us'[c].product.stock = q + d
                    /\ products' = [products EXCEPT ![id].stock = q + d]

StoreFailed(o) == o.called /\ o.err # ErrNil
Skipped(o) == ~o.called
NotConverted(o) == o.called /\ o.err = ErrNil /\ ~o.converted
ItemFailed(o) == Skipped(o) \/ StoreFailed(o) \/ NotConverted(o)

FailedAt(c) == {j \in 1..Len(outcomes[c]) : ItemFailed(outcomes[c][j])}
FirstFailed(c) == CHOOSE j \in FailedAt(c) : \A k \in FailedAt(c) : j <= k

\* The ids of the items whose adjustment the store committed, in order.
Committed(c) == SelectSeq(outcomes[c], LAMBDA o : o.wrote)

\* C4: the batch is not atomic.  Items are taken one at a time in request
\* order, each positive id as one store adjustment of its own; no step of
\* the handler writes the table except the UPDATE of the item in hand, so
\* nothing committed for an earlier item is rolled back when a later one
\* fails; and every item of the request is processed whatever failed before.
C4_State ==
    /\ \A c \in Clients :
          rpc[c].pc # "idle" =>
              /\ Len(outcomes[c]) <= Len(rpc[c].items)
              /\ \A j \in 1..Len(outcomes[c]) :
                    /\ outcomes[c][j].item = rpc[c].items[j]
                    /\ (outcomes[c][j].item.id > 0) => outcomes[c][j].called
              /\ rpc[c].pc \in {"loop", "call"} => Len(outcomes[c]) = rpc[c].i - 1
              /\ rpc[c].pc = "done" => Len(outcomes[c]) = Len(rpc[c].items)
    /\ \A id \in ProductIds :
          products[id].live => products[id].stock = ledger[id] + PendingSum(Clients, id)

C4_Step(c) ==
    /\ rpc'[c] # rpc[c] => products' = products
    /\ (us'[c] # us[c] /\ products' # products) =>
          /\ rpc[c].pc = "call"
          /\ us[c].id = rpc[c].items[rpc[c].i].id
          /\ us[c].delta = rpc[c].items[rpc[c].i].delta
          /\ seen'[c].wrote
          /\ products' = [products EXCEPT ![us[c].id].stock = @ + us[c].delta]

C4_BatchNotAtomic == [][C4_State' /\ \A c \in Clients : C4_Step(c)]_vars

\* A finished batch whose first item was committed and whose second item
\* failed in the store: the first adjustment is still in the row.
C4_Witness ==
    \E c \in Clients :
        /\ rpc[c].pc = "done" /\ Len(rpc[c].items) = 2
        /\ outcomes[c][1].wrote
        /\ StoreFailed(outcomes[c][2])
        /\ outcomes[c][1].item.id = outcomes[c][2].item.id
        /\ products[outcomes[c][1].item.id].stock = ledger[outcomes[c][1].item.id]

\* C5 (as claimed): updated_products holds exactly the products whose
\* adjustment this request committed, in request order, and when an item
\* failed the first error comes with that list.
C5_UpdatedExactlyCommitted ==
    \A c \in Clients :
        (rpc[c].pc = "done" /\ Len(rpc[c].items) > 0) =>
            /\ Len(rpc[c].updated) = Len(Committed(c))
            /\ \A j \in 1..Len(rpc[c].updated) :
                  rpc[c].updated[j].id = Committed(c)[j].item.id
            /\ FailedAt(c) # {} => (rpc[c].err # StatusOK /\ ~rpc[c].respNil)

\* C6 (as claimed): when every item of a non-empty batch failed the handler
\* returns a nil response; a payload comes with an error only when at least
\* one item succeeded.
C6_NilWhenAllFail ==
    \A c \in Clients :
        (rpc[c].pc = "done" /\ Len(rpc[c].items) > 0) =>
            /\ Len(rpc[c].updated) = 0 => rpc[c].respNil
            /\ (~rpc[c].respNil /\ rpc[c].err # StatusOK) => Len(rpc[c].updated) >= 1

\* The error of an item as C7 describes it.
ItemErrorClaimed(o) ==
    IF o.item.id <= 0 THEN Status("InvalidArgument", "invalid id", o.item.id)
    ELSE MapStoreErrorToGrpcStatus(o.err, o.item.id)

\* C7 (as claimed): the returned error is that of the first failing item,
\* InvalidArgument for id <= 0 and otherwise the mapped store error; an item
\* with id <= 0 makes no store call and every item is processed.
C7_FirstErrorIsStoreError ==
    \A c \in Clients :
        (rpc[c].pc = "done" /\ Len(rpc[c].items) > 0) =>
            /\ Len(outcomes[c]) = Len(rpc[c].items)
            /\ \A j \in 1..Len(outcomes[c]) :
                  /\ outcomes[c][j].item = rpc[c].items[j]
                  /\ outcomes[c][j].called = (outcomes[c][j].item.id > 0)
            /\ rpc[c].err = IF FailedAt(c) = {} THEN StatusOK
                            ELSE ItemErrorClaimed(outcomes[c][FirstFailed(c)])

\* C8: CheckProductsAvailability answers with one status per item, in request
\* order: a product absent from the fetched rows is unavailable, "not found";
\* a fetched inactive one is unavailable, "not active"; a fetched active one
\* with stock below the required quantity is unavailable, "insufficient
\* stock"; otherwise (stock equal to the required quantity included) it is
\* available with no reason.  A status of a fetched product carries its name,
\* price and stock.
C8_AvailabilityDecision ==
    \A c \in Clients :
        (av[c].pc = "done" /\ av[c].err = StatusOK) =>
            /\ ~av[c].respNil
            /\ Len(av[c].statuses) = Len(av[c].items)
            /\ \A j \in 1..Len(av[c].items) :
                  LET st == av[c].statuses[j]
                      it == av[c].items[j]
                      hits == {i \in 1..Len(av[c].fetched) : av[c].fetched[i].id = it.id}
                  IN  /\ st.productId = it.id
                      /\ hits = {} =>
                            ~st.available /\ st.reason = "Product not found."
                      /\ \A i \in hits :
                            LET p == av[c].fetched[i]
                            IN  /\ st.name = p.name
                                /\ st.price = p.price
                                /\ st.quantity = p.stock
                                /\ ~p.active =>
                                      ~st.available /\ st.reason = "Product is not active."
                                /\ (p.active /\ p.stock < it.qty) =>
                                      ~st.available /\ st.reason = "Insufficient stock."
                                /\ (p.active /\ p.stock >= it.qty) =>
                                      st.available /\ st.reason = NoReason

\* An answered request of two items: the first requires exactly the stock of
\* a fetched product and is available, the second was not fetched.
C8_Witness ==
    \E c \in Clients :
        /\ av[c].pc = "done" /\ av[c].err = StatusOK /\ Len(av[c].items) = 2
        /\ \E i \in 1..Len(av[c].fetched) :
              /\ av[c].fetched[i].id = av[c].items[1].id
              /\ av[c].fetched[i].stock = av[c].items[1].qty
        /\ av[c].statuses[1].available
        /\ av[c].statuses[2].reason = "Product not found."

RequestInvalid(items) ==
    \/ Len(items) = 0
    \/ \E j \in 1..Len(items) : items[j].id <= 0 \/ items[j].qty <= 0

\* C9: a CheckProductsAvailability request with an empty item list, or with
\* any item whose product id or required quantity is not positive, returns
\* InvalidArgument with no response, no statuses and no store call.
C9_RejectedWholesale ==
    \A c \in Clients :
        (av[c].pc # "idle" /\ RequestInvalid(av[c].items)) =>
            /\ av[c].pc = "done"
            /\ av[c].err.code = "InvalidArgument"
            /\ av[c].respNil
            /\ av[c].statuses = <<>>
            /\ av[c].calls = 0
            /\ ls[c].pc = "idle"

\* A rejected request whose first item is valid and names a live, active,
\* stocked product, and whose second item requires quantity 0.
C9_Witness ==
    \E c \in Clients :
        /\ av[c].pc = "done" /\ Len(av[c].items) = 2
        /\ av[c].items[1].id > 0 /\ av[c].items[1].qty > 0
        /\ products[av[c].items[1].id].live /\ products[av[c].items[1].id].active
        /\ products[av[c].items[1].id].stock >= av[c].items[1].qty
        /\ av[c].items[2].id > 0 /\ av[c].items[2].qty = 0
        /\ av[c].err.code = "InvalidArgument"

BadToken(token) == token = <<>> \/ ~Atoi(token).ok \/ Atoi(token).value < 0

\* The rows a page request matches, in the order the store lists them.
AllMatching(f) ==
    IF f.kind = "products" THEN ByCreation(MatchingProducts(f.params))
    ELSE ByName(LiveCategories)

RestListOps == {"ListCategories", "ListProducts"}

\* The limit and page of a REST list request as C11 states them.
ClaimedLimit(text) ==
    IF text = <<>> \/ ~Atoi(text).ok \/ Atoi(text).value <= 0 THEN 10
    ELSE IF Atoi(text).value > 100 THEN 100
    ELSE Atoi(text).value

ClaimedPage(text) ==
    IF text = <<>> \/ ~Atoi(text).ok \/ Atoi(text).value <= 0 THEN 1
    ELSE Atoi(text).value

\* C11 (as claimed): a REST list handler turns an absent, non-numeric or
\* non-positive page into 1 and such a limit into 10, a limit above 100 into
\* 100, calls the store with that limit and offset = (page - 1) * limit, and
\* echoes the page and limit in the response.
C11_RestPagination ==
    \A c \in Clients :
        (req[c].op \in RestListOps /\ req[c].pc # "idle" /\ req[c].status # 400) =>
            /\ req[c].limit = ClaimedLimit(req[c].limitStr)
            /\ req[c].page = ClaimedPage(req[c].pageStr)
            /\ req[c].pc = "list" =>
                  /\ ls[c].params.limit = req[c].limit
                  /\ ls[c].params.offset = (req[c].page - 1) * req[c].limit
            /\ req[c].status = 200 =>
                  /\ req[c].body.page = req[c].page
                  /\ req[c].body.limit = req[c].limit

\* C12 (as claimed): every list call a handler issues to the store carries
\* offset >= 0 and 1 <= limit <= 100.
C12_ListParamsInRange ==
    \A c \in Clients :
        ls[c].pc # "idle" =>
            /\ ls[c].params.offset >= 0
            /\ 1 <= ls[c].params.limit
            /\ ls[c].params.limit <= 100

\* The least number of pages of the given size that hold the given rows.
Ceil(total, limit) == CHOOSE k \in 0..total : k * limit >= total /\ (k - 1) * limit < total

C13_Step(c) ==
    (req[c].pc = "list" /\ req'[c].pc = "done" /\ req'[c].status = 200) =>
        /\ req'[c].body.totalItems = ls[c].total
        /\ req'[c].body.totalPages = Ceil(ls[c].total, ClaimedLimit(req[c].limitStr))
        /\ ls[c].total = 0 => req'[c].body.totalPages = 0

\* C13: a REST list response carries as total_items the count the store
\* returned and as total_pages the ceiling of total_items / limit with the
\* normalised limit, which is 0 for no items.
C13_TotalPages == [][\A c \in Clients : C13_Step(c)]_vars

\* A list of two rows with the default limit: total_items 2, total_pages 1.
C13_Witness ==
    \E c \in Clients :
        /\ req[c].pc = "done" /\ req[c].status = 200 /\ req[c].op \in RestListOps
        /\ req[c].limit = 10 /\ Len(req[c].body.data) = 2
        /\ req[c].body.totalItems = 2 /\ req[c].body.totalPages = 1

\* ------------------------------------------------ REST: errors to statuses
RestCrudOps ==
    {"CreateCategory", "GetCategoryByID", "UpdateCategory", "DeleteCategory",
     "CreateProduct", "GetProductByID", "UpdateProduct", "DeleteProduct"}

\* The messages a handler writes with status 500.
GenericMessages(op) ==
    CASE op = "CreateCategory" -> {"Failed to create category"}
      [] op = "GetCategoryByID" -> {"Failed to retrieve category"}
      [] op = "UpdateCategory" -> {"Failed to update category"}
      [] op = "DeleteCategory" -> {"Failed to delete category"}
      [] op = "CreateProduct" -> {"Failed to create product"}
      [] op = "GetProductByID" -> {"Failed to retrieve product"}
      [] op = "UpdateProduct" -> {"Error checking product existence",
                                  "Failed to update product"}
      [] op = "DeleteProduct" -> {"Failed to delete product"}
      [] op = "ListCategories" -> {"Failed to retrieve categories"}
      [] op = "ListProducts" -> {"Failed to retrieve products"}
      [] OTHER -> {}

RpcDetailOps == {"GetCategoryDetails", "GetProductDetails"}

StoreErrorKinds ==
    {ErrCategoryNotFound, ErrProductNotFound, ErrCategoryNameExists, ErrProductSKUExists,
     ErrInsufficientStock, ErrWrapped, ErrListWrapped} \cup StoreFailures

\* The status code the error taxonomy gives a store error.
ExpectedCode(err) ==
    IF err \in {ErrCategoryNotFound, ErrProductNotFound} THEN "NotFound"
    ELSE IF err \in {ErrCategoryNameExists, ErrProductSKUExists} THEN "AlreadyExists"
    ELSE IF err = ErrInsufficientStock THEN "FailedPrecondition"
    ELSE "Internal"

\* C15: GetCategoryDetails and GetProductDetails answer InvalidArgument for an
\* id <= 0 without calling the store; a store error becomes NotFound for the
\* not-found kinds, AlreadyExists for the conflicts, FailedPrecondition for
\* insufficient stock and Internal for everything else.
C15_RpcStatusMapping ==
    /\ \A c \in Clients :
          (req[c].pc = "done" /\ req[c].op \in RpcDetailOps)
          => IF req[c].id <= 0
             THEN req[c].grpc.code = "InvalidArgument" /\ req[c].calls = 0
             ELSE /\ req[c].calls = 1
                  /\ IF req[c].storeErr = ErrNil
                     THEN req[c].grpc.code \in {"OK", "Internal"}
                     ELSE req[c].grpc.code = ExpectedCode(req[c].storeErr)
    /\ \A err \in StoreErrorKinds, id \in RpcIds :
          MapStoreErrorToGrpcStatus(err, id).code = ExpectedCode(err)

\* GetCategoryDetails called the store for a positive id that names no row and
\* answered NotFound.
C15_Witness ==
    \E c \in Clients :
        /\ req[c].pc = "done" /\ req[c].op = "GetCategoryDetails"
        /\ req[c].id > 0 /\ req[c].storeErr = ErrCategoryNotFound
        /\ req[c].grpc.code = "NotFound"

\* ------------------------------------------------ the cause of a failure
\* Two REST or RPC detail requests that ask the same thing and got as far as
\* the same store call.
SameRequest(f, g) ==
    /\ f.op = g.op /\ f.calls = g.calls /\ f.id = g.id /\ f.name = g.name /\ f.parent = g.parent
    /\ f.sku = g.sku /\ f.stock = g.stock /\ f.limitStr = g.limitStr
    /\ f.pageStr = g.pageStr

FailedInternal(f) ==
    f.pc = "done" /\ f.storeErr # ErrNil /\ ExpectedCode(f.storeErr) = "Internal"

\* C16: two requests that ask the same thing and whose store call failed with
\* an error classified Internal get the same response, whatever the text of
\* the two underlying causes: over REST the same status and message, over RPC
\* the same status.
C16_CauseNotEchoed ==
    \A c, d \in Clients :
        /\ (FailedInternal(req[c]) /\ FailedInternal(req[d]) /\ SameRequest(req[c], req[d]))
           => /\ req[c].status = req[d].status /\ req[c].msg = req[d].msg
              /\ req[c].grpc = req[d].grpc
        /\ (/\ pg[c].pc = "done" /\ pg[d].pc = "done"
            /\ pg[c].kind = pg[d].kind /\ pg[c].params = pg[d].params
            /\ pg[c].err.code = "Internal" /\ pg[d].err.code = "Internal")
           => pg[c].err = pg[d].err

\* The same over REST alone.
C16_RestCauseNotEchoed ==
    \A c, d \in Clients :
        (/\ FailedInternal(req[c]) /\ FailedInternal(req[d]) /\ SameRequest(req[c], req[d])
         /\ req[c].op \in RestCrudOps \cup RestListOps)
        => req[c].status = req[d].status /\ req[c].msg = req[d].msg

\* ------------------------------------------------ a category and its parent
\* C17: a REST category update whose parent_category_id is the id of the URL
\* is answered 400, the store is not called and no table changes.
C17_Step(c) ==
    (/\ req[c].pc = "idle" /\ req'[c].pc = "done" /\ req'[c].op = "UpdateCategory"
     /\ req'[c].id > 0 /\ req'[c].parent = req'[c].id)
    => /\ req'[c].status = 400 /\ req'[c].calls = 0
       /\ categories' = categories /\ products' = products

C17_SelfParentRejected == [][\A c \in Clients : C17_Step(c)]_vars

\* An update of an existing category, with a valid name, named the category
\* itself as parent and was refused.
C17_Witness ==
    \E c \in Clients :
        /\ req[c].pc = "done" /\ req[c].op = "UpdateCategory"
        /\ CategoryLive(req[c].id) /\ req[c].parent = req[c].id /\ req[c].name # ""
        /\ req[c].status = 400 /\ req[c].msg = "Category cannot be its own parent"

\* C18: no stored category names itself as its parent, whatever REST creates,
\* updates and deletes ran on the store that started empty.
C18_NoSelfParent ==
    \A id \in CategoryIds : categories[id].live => categories[id].parent # id

\* ------------------------------------------------------- names and SKUs
\* A handler answered in this step, after one more store call.
StoreCalled(c) ==
    /\ req[c].pc \in {"idle", "update"} /\ req'[c].pc = "done"
    /\ req'[c].calls = req[c].calls + 1

WroteCategoryName(c) == req'[c].op \in {"CreateCategory", "UpdateCategory"}
WroteProductSku(c) ==
    \/ req'[c].op = "CreateProduct"
    \/ req'[c].op = "UpdateProduct" /\ req[c].pc = "update"

C19_Unique ==
    /\ \A i, j \in CategoryIds :
          (i # j /\ categories[i].live /\ categories[j].live)
          => categories[i].name # categories[j].name
    /\ \A i, j \in ProductIds :
          (i # j /\ products[i].live /\ products[j].live)
          => products[i].sku # products[j].sku

C19_Step(c) ==
    /\ (/\ StoreCalled(c) /\ WroteCategoryName(c) /\ req'[c].storeErr \notin StoreFailures
        /\ req'[c].op = "UpdateCategory" => CategoryLive(req'[c].id)
        /\ NameTaken(req'[c].name, req'[c].id))
       => req'[c].storeErr = ErrCategoryNameExists
    /\ (/\ StoreCalled(c) /\ WroteProductSku(c) /\ req'[c].storeErr \notin StoreFailures
        /\ req'[c].op = "UpdateProduct" => ProductLive(req'[c].id)
        /\ SkuTaken(req'[c].sku, req'[c].id))
       => req'[c].storeErr = ErrProductSKUExists
    /\ (StoreCalled(c) /\ req'[c].storeErr \in {ErrCategoryNameExists, ErrProductSKUExists})
       => /\ req'[c].storeNil
          /\ categories' = categories /\ products' = products

\* C19: no two categories carry the same name and no two products the same
\* SKU; a create or update that would give an entity the name or SKU of
\* another one fails with the conflict error, returns no entity and leaves
\* the tables as they were.
C19_UniqueKeys == [](C19_Unique) /\ [][\A c \in Clients : C19_Step(c)]_vars

\* Two categories exist and an update that would have given one the name of
\* the other was refused.
C19_Witness ==
    \E c \in Clients :
        /\ req[c].pc = "done" /\ req[c].op = "UpdateCategory"
        /\ req[c].storeErr = ErrCategoryNameExists /\ req[c].storeNil
        /\ \E i \in CategoryIds :
              i # req[c].id /\ categories[i].live /\ categories[i].name = req[c].name

\* ------------------------------------------------------ ids that name no row
CategoryByIdOps == {"GetCategoryByID", "UpdateCategory", "DeleteCategory", "GetCategoryDetails"}
ProductByIdOps == {"GetProductByID", "UpdateProduct", "DeleteProduct", "GetProductDetails"}

\* The id of the store call of this step names no row, and the statement
\* itself did not fail.
UnknownId(c) ==
    /\ StoreCalled(c) /\ req'[c].storeErr \notin StoreFailures
    /\ \/ req'[c].op \in CategoryByIdOps /\ ~CategoryLive(req'[c].id)
       \/ req'[c].op \in ProductByIdOps /\ ~ProductLive(req'[c].id)

Deleted(c) ==
    /\ StoreCalled(c) /\ req'[c].op \in {"DeleteCategory", "DeleteProduct"}
    /\ req'[c].storeErr = ErrNil

C20_Step(c) ==
    /\ UnknownId(c)
       => /\ req'[c].storeErr = IF req'[c].op \in CategoryByIdOps THEN ErrCategoryNotFound
                                ELSE ErrProductNotFound
          /\ req'[c].storeNil
          /\ categories' = categories /\ products' = products
    /\ Deleted(c)
       => IF req'[c].op = "DeleteCategory" THEN ~categories'[req'[c].id].live
          ELSE ~products'[req'[c].id].live

\* C20: GetByID, Update and Delete of an id that names no row return NotFound
\* and no entity and leave the tables as they were; a Delete that succeeded
\* leaves no row under the id, so a second Delete and a GetByID after it
\* return NotFound.
C20_UnknownIdNotFound == [][\A c \in Clients : C20_Step(c)]_vars

\* A category that was created and deleted is deleted once more.
C20_Witness ==
    \E c \in Clients :
        /\ req[c].pc = "done" /\ req[c].op = "DeleteCategory"
        /\ req[c].id > 0 /\ req[c].id < nextCatId
        /\ req[c].storeErr = ErrCategoryNotFound /\ req[c].status = 404

\* ------------------------------------------------------------ store List
\* A row passes the filters of a List call, read off the WHERE clauses.
PassesFilter(f, row) ==
    /\ row.live
    /\ f.table = "products" =>
          /\ f.params.cat # 0 => row.cat = f.params.cat
          /\ f.params.isActive = "true" => row.active
          /\ f.params.isActive = "false" => ~row.active
          /\ f.params.ids # <<>> => \E i \in 1..Len(f.params.ids) : f.params.ids[i] = row.id

CountMatching(f) ==
    IF f.table = "products"
    THEN Cardinality({id \in ProductIds : PassesFilter(f, products[id])})
    ELSE Cardinality({id \in CategoryIds : PassesFilter(f, categories[id])})

C21_Step(c) ==
    LET f == ls[c]
        g == ls'[c]
    IN  /\ (f.pc = "idle" /\ g.pc # "idle") => g.pc = "count"
        /\ (g.pc = "data" /\ f.pc # "data") => f.pc = "count"
        /\ (f.pc = "count" /\ g.pc \in {"data", "ret"} /\ g.err = ErrNil)
           => /\ g.total = CountMatching(f) /\ g.params = f.params
              /\ g.total = 0 => g.pc = "ret" /\ g.rows = <<>> /\ ~g.rowsNil
              /\ g.total > 0 => g.pc = "data"
        /\ (f.pc = "data" /\ g.pc = "ret" /\ g.err = ErrNil)
           => /\ g.total = f.total /\ ~g.rowsNil /\ Len(g.rows) <= f.params.limit
              /\ \A i \in 1..Len(g.rows) : PassesFilter(f, g.rows[i])

\* C21: a store List call counts first and returns as total the number of
\* rows that pass its filters, whatever its limit and offset; with no such
\* row it returns the empty, non-nil sequence and total 0 without the data
\* statement; the data statement comes only after the count, under the same
\* filters.
C21_ListTotal == [][\A c \in Clients : C21_Step(c)]_vars

\* A products List whose filters no row passes, on a table that holds rows.
C21_Witness ==
    \E c \in Clients :
        /\ ls[c].pc = "ret" /\ ls[c].err = ErrNil /\ ls[c].table = "products"
        /\ ls[c].total = 0 /\ ls[c].rows = <<>> /\ ~ls[c].rowsNil
        /\ \E id \in ProductIds : products[id].live

\* ------------------------------------------------------------ attributes
\* What a read gives for the attributes a writer gave.
ExpectedAttrs(given) == IF given \in {NoAttrs, "", "null"} THEN NoAttrs ELSE given

ReadBack(p) == p.attrs = ExpectedAttrs(DocOfSku(p.sku))

Unconvertible(p) == p.attrs \notin {NoAttrs, "", "null", "{}", "{\"a\":1}"}

RECURSIVE Convertibles(_)
Convertibles(rows) ==
    IF rows = <<>> THEN <<>>
    ELSE IF Unconvertible(Head(rows)) THEN Convertibles(Tail(rows))
    ELSE <<Head(rows)>> \o Convertibles(Tail(rows))

C23_Details ==
    \A c \in Clients :
        (/\ req[c].pc = "done" /\ req[c].op = "GetProductDetails"
         /\ req[c].storeErr = ErrNil /\ req[c].calls = 1)
        => IF Unconvertible(ScanProduct(products[req[c].id]))
           THEN req[c].grpc.code = "Internal"
           ELSE req[c].grpc.code = "OK"

C23_Step(c) ==
    (/\ pg[c].pc = "list" /\ pg'[c].pc = "done" /\ pg[c].kind = "products"
     /\ ls[c].err = ErrNil)
    => LET kept == Convertibles(ls[c].rows)
       IN  /\ pg'[c].err = StatusOK /\ ~pg'[c].respNil
           /\ Len(pg'[c].entities) = Len(kept)
           /\ \A i \in 1..Len(kept) :
                 /\ pg'[c].entities[i].id = kept[i].id
                 /\ pg'[c].entities[i].sku = kept[i].sku

\* C23: for a stored product whose attributes are not a JSON object,
\* GetProductDetails answers Internal, while ListProductsInternal answers
\* without an error the other products of the page, in the order of the
\* page, and leaves out exactly that one.
C23_ConversionFailure == [](C23_Details) /\ [][\A c \in Clients : C23_Step(c)]_vars

\* A page of two products, the first of which does not convert: the answer
\* holds the second alone.
C23_Witness ==
    \E c \in Clients :
        /\ pg[c].pc = "done" /\ pg[c].kind = "products" /\ pg[c].err = StatusOK
        /\ pg[c].params.offset = 0 /\ pg[c].params.limit >= 2 /\ pg[c].total = 2
        /\ products[1].live /\ products[1].attrs = "[1]"
        /\ Len(pg[c].entities) = 1 /\ pg[c].entities[1].id = 2

\* ------------------------------------------------ product payloads
\* A product payload that meets the constraints of the data model: SKU
\* present, stock quantity not negative.
MeetsDataModel(f) == f.sku # "" /\ f.stock >= 0

\* C24: a REST product create or update whose payload meets the constraints
\* of the data model, a stock quantity of 0 included, passes validation and
\* reaches the store; any other payload is answered 400 without a store call.
C24_ValidPayloadAccepted ==
    \A c \in Clients :
        (/\ req[c].pc = "done" /\ req[c].op \in {"CreateProduct", "UpdateProduct"}
         /\ req[c].op = "UpdateProduct" => req[c].id > 0)
        => IF MeetsDataModel(req[c]) THEN req[c].calls >= 1
           ELSE req[c].status = 400 /\ req[c].calls = 0

\* Category trees: a category's parent is 0 (none) or a category created
\* before it.  One page request at a time, with or without a parent filter.
ParentTables ==
    {t \in [CategoryIds -> {NoCategory} \cup
                           {NewCategory(id, CatNames[id], parent) :
                               id \in CategoryIds, parent \in 0..(MaxCatId - 1)}] :
        \A id \in CategoryIds : t[id].live => t[id].id = id /\ t[id].parent < id}

ParentInit ==
    /\ categories \in ParentTables
    /\ products = NoProducts
    /\ nextId = 1
    /\ nextCatId = MaxCatId + 1
    /\ NoCalls
    /\ ledger = [id \in ProductIds |-> products[id].stock]

ParentNext ==
    \/ \E c \in Clients :
          /\ NoOtherPage(c) /\ pg[c].pc = "idle"
          /\ \E pageSize \in {0, 1}, token \in {<<>>, <<"1">>}, parent \in 0..MaxCatId :
                ListCategoriesInternal(c, pageSize, token, parent)
    \/ \E c \in Clients : ListCountStmt(c)
    \/ \E c \in Clients : ListDataStmt(c)
    \/ \E c \in Clients : ListStmtError(c)
    \/ \E c \in Clients : ListCategoriesInternalResult(c)

ParentSpec == ParentInit /\ [][ParentNext]_vars

ChildrenOf(parent) == {id \in CategoryIds : categories[id].live /\ categories[id].parent = parent}

C25_Entities ==
    \A c \in Clients :
        (/\ pg[c].pc = "done" /\ pg[c].kind = "categories"
         /\ pg[c].parent > 0 /\ pg[c].err = StatusOK)
        => \A i \in 1..Len(pg[c].entities) : pg[c].entities[i].parent = pg[c].parent

C25_Step(c) ==
    (/\ pg[c].pc = "list" /\ pg[c].kind = "categories" /\ pg[c].parent > 0
     /\ ListCountStmt(c))
    => ls'[c].total = Cardinality(ChildrenOf(pg[c].parent))

\* C25: ListCategoriesInternal called with a parent category id returns only
\* categories whose parent is that id, and the total the store counts for
\* the call is the number of categories with that parent.
C25_ParentFilter == [](C25_Entities) /\ [][\A c \in Clients : C25_Step(c)]_vars

\* Creates with an id in the payload, and deletes, one request at a time.
ClientIds == {0, 1, MaxCatId + 1}

IdNext ==
    \/ \E c \in Clients :
          /\ CrudClient(c)
          /\ \E name \in CrudNames, clientId \in ClientIds, fault \in Faults :
                RestCreateCategoryOf(c, name, 0, clientId, fault)
    \/ \E c \in Clients :
          /\ CrudClient(c)
          /\ \E idStr \in UrlIds : RestDeleteCategory(c, idStr, ErrNil)
    \/ \E c \in Clients :
          /\ CrudClient(c)
          /\ \E sku \in CrudSkus, clientId \in ClientIds, fault \in Faults :
                RestCreateProductOf(c, sku, 1, NoAttrs, clientId, fault)
    \/ \E c \in Clients :
          /\ CrudClient(c)
          /\ \E idStr \in UrlIds : RestDeleteProduct(c, idStr, ErrNil)
    \/ \E c \in Clients : RestClose(c)

IdSpec == Init /\ [][IdNext]_vars

Created(c, op) ==
    /\ req[c].pc = "idle" /\ req'[c].pc = "done"
    /\ req'[c].op = op /\ req'[c].status = 201

C26_Rows ==
    /\ nextCatId > 0 /\ nextId > 0
    /\ \A id \in CategoryIds : categories[id].live => categories[id].id = id /\ id < nextCatId
    /\ \A id \in ProductIds : products[id].live => products[id].id = id /\ id < nextId

C26_Step(c) ==
    /\ nextCatId' >= nextCatId /\ nextId' >= nextId
    /\ Created(c, "CreateCategory")
       => /\ req'[c].body.id = nextCatId /\ nextCatId' = nextCatId + 1
          /\ categories'[nextCatId].live /\ categories'[nextCatId].id = nextCatId
    /\ Created(c, "CreateProduct")
       => /\ req'[c].body.id = nextId /\ nextId' = nextId + 1
          /\ products'[nextId].live /\ products'[nextId].id = nextId

C27_ErrorsMatchUpdate ==
    \A c \in Clients :
        us[c].pc = "ret"
        => /\ us[c].err = ErrProductNotFound => ~seen[c].existed
           /\ us[c].err = ErrInsufficientStock
              => seen[c].existed /\ seen[c].qty + us[c].delta < 0

\* The same with the existence query succeeding and no create or delete of
\* the id between the two statements.
C27_QuietErrorsMatchUpdate ==
    \A c \in Clients :
        (us[c].pc = "ret" /\ ~seen[c].failed /\ ~seen[c].raced)
        => /\ us[c].err = ErrProductNotFound => ~seen[c].existed
           /\ us[c].err = ErrInsufficientStock
              => seen[c].existed /\ seen[c].qty + us[c].delta < 0

\* Page requests of both RPC list operations while products and categories
\* are created and deleted: a write can commit between the count statement
\* and the data statement of a list.
RaceNext ==
    \/ CreateProduct("p", SkuNames[nextId], 1, 1, 0, TRUE, "null")
    \/ \E id \in ProductIds : DeleteProduct(id)
    \/ \E c \in Clients :
          /\ CrudClient(c)
          /\ \E name \in CrudNames : RestCreateCategory(c, name, 0, ErrNil)
    \/ \E c \in Clients :
          /\ CrudClient(c)
          /\ \E id \in CategoryIds : RestDeleteCategory(c, Itoa(id), ErrNil)
    \/ \E c \in Clients : RestClose(c)
    \/ \E c \in Clients :
          /\ NoOtherPage(c) /\ pg[c].pc = "idle"
          /\ \E pageSize \in {0, 1}, token \in {<<>>, <<"1">>} :
                ListCategoriesInternal(c, pageSize, token, 0)
    \/ \E c \in Clients :
          /\ NoOtherPage(c) /\ pg[c].pc = "idle"
          /\ \E pageSize \in {0, 1}, token \in {<<>>, <<"1">>} :
                ListProductsInternal(c, pageSize, token, 0, <<>>, TRUE)
    \/ \E c \in Clients : ListCountStmt(c)
    \/ \E c \in Clients : ListDataStmt(c)
    \/ \E c \in Clients : ListStmtError(c)
    \/ \E c \in Clients : ListCategoriesInternalResult(c)
    \/ \E c \in Clients : ListProductsInternalResult(c)

RaceSpec == Init /\ [][RaceNext]_vars

ExpectedRows(f) ==
    Min(f.params.limit, IF f.total - f.params.offset < 0 THEN 0
                        ELSE f.total - f.params.offset)

C28_Step(c) ==
    /\ (/\ ls[c].pc = "count" /\ ls'[c].pc = "ret" /\ ls'[c].err = ErrNil)
       => ls'[c].total = 0 /\ ls'[c].rows = <<>>
    /\ (/\ ls[c].pc = "data" /\ ls'[c].pc = "ret" /\ ls'[c].err = ErrNil
        /\ Len(Matching(ls[c])) = ls[c].total)
       => Len(ls'[c].rows) = ExpectedRows(ls[c])

\* C28: the count and the page of a store List are two statements; when the
\* data statement finds as many matching rows as were counted, as it does
\* when no write was committed in between, the page holds exactly
\* min(limit, max(0, total - offset)) rows.
C28_PageOfQuietList == [][\A c \in Clients : C28_Step(c)]_vars

\* A create committed between the two statements: the page holds more rows
\* than total - offset.
C28_Witness ==
    \E c \in Clients :
        /\ ls[c].pc = "ret" /\ ls[c].err = ErrNil /\ ls[c].total > 0
        /\ Len(ls[c].rows) > ls[c].total - ls[c].params.offset
        /\ Len(ls[c].rows) # ExpectedRows(ls[c])

\* A caller that walks the pages of a list from the empty token, on tables
\* that nothing writes.
WalkInit ==
    /\ \/ products \in ListTables /\ categories = [id \in CategoryIds |-> NoCategory]
       \/ products = NoProducts /\ categories \in CatTables
    /\ nextId = MaxId + 1
    /\ nextCatId = MaxCatId + 1
    /\ NoCalls
    /\ ledger = [id \in ProductIds |-> products[id].stock]

WalkNext ==
    \/ \E c \in Clients :
          /\ NoOtherPage(c) /\ pg[c].pc = "idle"
          /\ \E pageSize \in {0, 1} : ListCategoriesInternal(c, pageSize, <<>>, 0)
    \/ \E c \in Clients :
          /\ NoOtherPage(c) /\ pg[c].pc = "idle"
          /\ \E pageSize \in {0, 1}, inactive \in BOOLEAN :
                ListProductsInternal(c, pageSize, <<>>, 0, <<>>, inactive)
    \/ \E c \in Clients : FollowNextPageToken(c)
    \/ \E c \in Clients : ListCountStmt(c)
    \/ \E c \in Clients : ListDataStmt(c)
    \/ \E c \in Clients : ListCategoriesInternalResult(c)
    \/ \E c \in Clients : ListProductsInternalResult(c)

WalkSpec == WalkInit /\ [][WalkNext]_vars

Answered(c) == pg[c].pc = "done" /\ pg[c].err = StatusOK

MatchingOf(f) == Matching([table |-> f.kind, params |-> f.params])

Converts(id) == ConvertDomainProductToProto(ScanProduct(products[id])).ok

\* The matching entities that the handler can answer.
WalkExpected(f) ==
    IF f.kind = "products" THEN SelectSeq(MatchingOf(f), Converts) ELSE MatchingOf(f)

C29_TokenAdvances ==
    \A c \in Clients :
        (Answered(c) /\ pg[c].nextToken # <<>>)
        => /\ Atoi(pg[c].nextToken).ok
           /\ Atoi(pg[c].nextToken).value > pg[c].params.offset

C29_EachOnce ==
    \A c \in Clients :
        (Answered(c) /\ pg[c].nextToken = <<>>)
        => /\ Len(pg[c].received) = Len(WalkExpected(pg[c]))
           /\ Range(pg[c].received) = Range(WalkExpected(pg[c]))

\* C29: on tables that nothing writes, every next page token of a walk that
\* started with the empty token is greater than the offset of the call that
\* returned it, and when the walk ends with an empty token the caller has
\* received exactly once every matching entity that can be converted.
C29_WalkCompletes == C29_TokenAdvances /\ C29_EachOnce

\* The same on tables whose products can all be converted.
C29_ConvertibleWalkCompletes ==
    (\A id \in ProductIds : products[id].live => Converts(id)) => C29_WalkCompletes

\* ------------------------------------------------ main, waitForShutdown
procRest == <<storeVars, stockVars, batchVars, readVars, categories, nextCatId>>

\* Requests arrive at a server that accepts connections, and end.
HttpRequestArrives ==
    /\ sd.httpServer = "serving" /\ sd.httpActive < MaxInFlight
    /\ sd' = [sd EXCEPT !.httpActive = @ + 1]
    /\ UNCHANGED procRest

HttpRequestEnds ==
    /\ sd.httpActive > 0
    /\ sd' = [sd EXCEPT !.httpActive = @ - 1]
    /\ UNCHANGED procRest

RpcArrives ==
    /\ sd.grpcServer = "serving" /\ sd.rpcActive < MaxInFlight
    /\ sd' = [sd EXCEPT !.rpcActive = @ + 1]
    /\ UNCHANGED procRest

RpcEnds ==
    /\ sd.rpcActive > 0
    /\ sd' = [sd EXCEPT !.rpcActive = @ - 1]
    /\ UNCHANGED procRest

\* SIGINT or SIGTERM is delivered to sigChan (capacity 1).
Signal ==
    /\ sd.pc = "sigChan" /\ ~sd.sigChan
    /\ sd' = [sd EXCEPT !.sigChan = TRUE]
    /\ UNCHANGED procRest

\* Lines 207-222: the signal is received, the 30 s context is created and
\* the goroutine that will call GracefulStop is started.
ReceiveSignal ==
    /\ sd.pc = "sigChan" /\ sd.sigChan
    /\ sd' = [sd EXCEPT !.sigChan = FALSE, !.shutdownCtx = "live",
                        !.gstop = "spawned", !.pc = "Shutdown"]
    /\ UNCHANGED procRest

\* The deadline of shutdownCtx passes.
ShutdownCtxExpires ==
    /\ sd.shutdownCtx = "live"
    /\ sd' = [sd EXCEPT !.shutdownCtx = "expired"]
    /\ UNCHANGED procRest

\* Line 220, in the goroutine: GracefulStop stops accepting RPCs ...
GracefulStop ==
    /\ sd.gstop = "spawned"
    /\ sd' = [sd EXCEPT !.gstop = "GracefulStop",
                        !.grpcServer = IF @ = "serving" THEN "draining" ELSE @]
    /\ UNCHANGED procRest

\* ... and returns once the pending RPCs have ended or Stop was called;
\* line 221 then closes stoppedGrpc.
GracefulStopReturns ==
    /\ sd.gstop = "GracefulStop"
    /\ sd.rpcActive = 0 \/ sd.grpcServer = "stopped"
    /\ sd' = [sd EXCEPT !.gstop = "done", !.grpcServer = "stopped",
                        !.stoppedGrpc = TRUE]
    /\ UNCHANGED procRest

\* Line 227: Shutdown closes the listeners ...
HttpShutdown ==
    /\ sd.pc = "Shutdown"
    /\ sd' = [sd EXCEPT !.pc = "Shutdown.wait", !.httpServer = "draining"]
    /\ UNCHANGED procRest

\* ... and returns nil once no connection is active,
HttpShutdownReturns ==
    /\ sd.pc = "Shutdown.wait" /\ sd.httpActive = 0
    /\ sd' = [sd EXCEPT !.pc = "select", !.httpServer = "stopped"]
    /\ UNCHANGED procRest

\* or the context's error once the context is done: the active connections
\* are left running (lines 227-229).
HttpShutdownTimesOut ==
    /\ sd.pc = "Shutdown.wait" /\ sd.shutdownCtx = "expired"
    /\ sd' = [sd EXCEPT !.pc = "select", !.shutdownErr = TRUE]
    /\ UNCHANGED procRest

\* Lines 234-236.
SelectStoppedGrpc ==
    /\ sd.pc = "select" /\ sd.stoppedGrpc
    /\ sd' = [sd EXCEPT !.pc = "Close"]
    /\ UNCHANGED procRest

\* Lines 237-241: the context is done, the gRPC server is stopped by force.
SelectCtxDone ==
    /\ sd.pc = "select" /\ sd.shutdownCtx = "expired"
    /\ sd' = [sd EXCEPT !.pc = "Close", !.grpcServer = "stopped", !.forced = TRUE]
    /\ UNCHANGED procRest

\* Lines 245-250.
CloseStore ==
    /\ sd.pc = "Close"
    /\ sd' = [sd EXCEPT !.pc = "return", !.db = "closed"]
    /\ UNCHANGED procRest

\* Lines 252-253 and the deferred calls of lines 212 and 203.
WaitForShutdownReturns ==
    /\ sd.pc = "return"
    /\ sd' = [sd EXCEPT !.pc = "done",
                        !.shutdownCtx = IF @ = "live" THEN "cancelled" ELSE @,
                        !.shutdownComplete = TRUE]
    /\ UNCHANGED procRest

\* Lines 128-130, and the deferred db.Close of lines 67-73.
MainReturns ==
    /\ sd.main = "blocked" /\ sd.shutdownComplete
    /\ sd' = [sd EXCEPT !.main = "returned", !.db = "closed"]
    /\ UNCHANGED procRest

ShutdownNext ==
    \/ HttpRequestArrives
    \/ HttpRequestEnds
    \/ RpcArrives
    \/ RpcEnds
    \/ Signal
    \/ ReceiveSignal
    \/ ShutdownCtxExpires
    \/ GracefulStop
    \/ GracefulStopReturns
    \/ HttpShutdown
    \/ HttpShutdownReturns
    \/ HttpShutdownTimesOut
    \/ SelectStoppedGrpc
    \/ SelectCtxDone
    \/ CloseStore
    \/ WaitForShutdownReturns
    \/ MainReturns

ShutdownSpec == Init /\ [][ShutdownNext]_vars

\* The graceful stop is started before the HTTP shutdown, and the wait ends
\* with the gRPC server stopped, by force only after the context expired.
C30_Sequence ==
    /\ sd.httpServer # "serving" => sd.gstop # "none"
    /\ sd.pc \in {"select", "Close", "return", "done"} => sd.httpServer # "serving"
    /\ sd.pc \in {"Close", "return", "done"}
       => sd.grpcServer = "stopped" /\ (sd.stoppedGrpc \/ sd.forced)
    /\ (sd.forced /\ sd.pc # "done") => sd.shutdownCtx = "expired"

\* shutdownComplete is closed after the pool, and main returns after it.
C30_Completion ==
    /\ sd.shutdownComplete => sd.db = "closed" /\ sd.pc = "done"
    /\ sd.main = "returned" => sd.shutdownComplete

C30_PoolAfterServers ==
    sd.db = "closed" => sd.httpServer = "stopped" /\ sd.grpcServer = "stopped"

\* C30: after a signal waitForShutdown starts the graceful stop of the gRPC
\* server, shuts down the HTTP server and waits for the gRPC server to stop
\* or the context to expire; the pool is closed only when both servers have
\* stopped, shutdownComplete is closed last and main returns after it.
C30_ShutdownOrder == C30_Sequence /\ C30_Completion /\ C30_PoolAfterServers

\* The same without the pool's condition when Shutdown returned an error.
C30_OrderWhenHttpDrained ==
    /\ C30_Sequence /\ C30_Completion
    /\ ~sd.shutdownErr => C30_PoolAfterServers

====
